---- MODULE Spec2Model ----
(***************************************************************************)
(* Verification model of tonverk-elmulti-converter (src/elmconv.py).       *)
(*                                                                         *)
(* SpecLoop    : write_elmulti for one zone: the transcode step followed   *)
(*               by the sample-slot step (trim points, loop strategy,      *)
(*               loop optimization, final validation, mapping lines).      *)
(* SpecSingleCycle : calls of calculate_single_cycle_loop.                 *)
(* SpecThin        : calls of apply_thinning (with analyze_sample_map).    *)
(* SpecConvert     : calls of convert_to_elmulti, with what they create.   *)
(* SpecOptimize    : calls of optimize_loop_points.                        *)
(* SpecOpen        : EXSInstrument(exsfile_name), the header validation.   *)
(* SpecScan        : the chunk scan of EXSInstrument and its lazy          *)
(*                   collections zones, samples, groups.                   *)
(* SpecParse       : calls of parse_sfz and parse_exs.                     *)
(* SpecEmbed       : sequences of embed_smpl_chunk calls on one WAV file.  *)
(* SpecBatch       : a batch of input files through main and through       *)
(*                   ConverterBridge.convert_files.                        *)
(* SpecWrite       : write_elmulti over a zone list, loop by loop, and a   *)
(*                   second run into the same output directory.            *)
(* SpecStats       : conversion_stats over a batch in both file orders.    *)
(* SpecGui         : the GUI events of ElmconvApp and the conversions they *)
(*                   start.                                                *)
(*                                                                         *)
(* Conventions.  A Python float ratio is the exact rational [n, d]; every  *)
(* ratio the model draws has a power-of-two denominator and small          *)
(* operands, so the float product x * ratio of the code is exact and       *)
(* round()/int() act on the exact value.  Python None for a sample count   *)
(* or a rate is the value None below.  A Python list is a 1-based          *)
(* sequence: samples[i] of the code is At(samples, i).                     *)
(***************************************************************************)
EXTENDS Integers, Sequences, FiniteSets, TLC

VARIABLES
    pc,                \* position inside write_elmulti / the modelled call
    opts,              \* keyword arguments of write_elmulti
    zd,                \* the zone dict being processed
    wav,               \* the output WAV file of the zone (dest_path)
    samples,           \* result of read_wav_samples for the slot
    lines,             \* key = value lines written for the sample slot
    conversion_stats,  \* the process-wide ConversionStats object
    slot,              \* local variables of the sample-slot step
    call,              \* arguments of the function call under way
    ret,               \* what the call returned or raised
    fs                 \* what the call created in the output directory

vars == <<pc, opts, zd, wav, samples, lines, conversion_stats, slot,
          call, ret, fs>>

----------------------------------------------------------------------------
(* Bounds of the model *)

MaxPos == 2          \* zone loop/trim positions range over 0..MaxPos
MaxSamples == 3      \* decoded samples (frames * channels) of an output WAV
SearchRange == 1     \* the --loop-search-range of the model
Threshold == 2       \* the nonzero --single-cycle-threshold of the model
LoudAmp == 500000    \* a sample amplitude above 5% of 24-bit full scale
BasePitch == 59      \* lowest MIDI pitch of the small pitch sets
MaxPitches == 5      \* small pitch sets lie in BasePitch..BasePitch+MaxPitches-1
MaxLayers == 2       \* velocity layers per pitch
MaxThin == 3         \* thinning factors range over 1..MaxThin
MaxCap == 3          \* maximum-interval caps range over 1..MaxCap

None == 0 - 1

Abs(x) == IF x < 0 THEN -x ELSE x
Min2(a, b) == IF a < b THEN a ELSE b
Max2(a, b) == IF a > b THEN a ELSE b

\* samples[i] with Python's 0-based index
At(s, i) == s[i + 1]

Amps == {0, LoudAmp}

\* every sample array of length n
SampleArrays(n) == [1..n -> Amps]

----------------------------------------------------------------------------
(* Python numeric built-ins on the rational n/d, d > 0 *)

\* round(n/d): round half to even
PyRound(n, d) ==
    LET q == n \div d
        r == n - q * d
    IN  IF 2 * r < d THEN q
        ELSE IF 2 * r > d THEN q + 1
        ELSE IF q % 2 = 0 THEN q ELSE q + 1

\* int(n/d): truncation toward zero
PyInt(n, d) == IF n >= 0 THEN n \div d ELSE -((-n) \div d)

\* convert_func = round if round_loop_points else int, applied to x * ratio
convert_func(round_loop_points, x, ratio) ==
    IF round_loop_points THEN PyRound(x * ratio.n, ratio.d)
    ELSE PyInt(x * ratio.n, ratio.d)

\* resample_ratio != 1.0
RatioIsOne(ratio) == ratio.n = ratio.d

----------------------------------------------------------------------------
(* Loop point helpers *)

\* a variant with an off-by-one bound (value > sample_count): it lets a
\* position equal to the sample count through
validate_sample_position_off_by_one(value, sample_count, can_omit) ==
    IF value <= 0 \/ sample_count = None \/ sample_count <= 0
    THEN [value |-> value, warned |-> FALSE]
    ELSE IF value > sample_count
         THEN IF can_omit
              THEN [value |-> 0, warned |-> TRUE]
              ELSE [value |-> sample_count - 1, warned |-> TRUE]
         ELSE [value |-> value, warned |-> FALSE]

\* validate_sample_position(value, sample_count, can_omit):
\* (validated_value, warning_message or None); warned = a message is returned
validate_sample_position(value, sample_count, can_omit) ==
    IF value <= 0 \/ sample_count = None \/ sample_count <= 0
    THEN [value |-> value, warned |-> FALSE]
    ELSE IF value >= sample_count
         THEN IF can_omit
              THEN [value |-> 0, warned |-> TRUE]
              ELSE [value |-> sample_count - 1, warned |-> TRUE]
         ELSE [value |-> value, warned |-> FALSE]

\* is_single_cycle(loop_length, threshold)
is_single_cycle(loop_length, threshold) == loop_length <= threshold

MAX_VAL_24BIT == 8388607

\* diff_percent > 5.0 with diff_percent = (diff_phase / max_val) * 100
PhaseIncoherent(diff_phase) == diff_phase * 100 > 5 * MAX_VAL_24BIT

\* calculate_single_cycle_loop, the statements of the `if samples:` block in
\* reverse order; each takes the values of loop_start, loop_end and the
\* warnings list as the statement finds them.

\* "Check phase coherence only if indices are valid and we have room"
SCPhase(smp, loop_start, loop_end, warnings) ==
    [loop_start |-> loop_start, loop_end |-> loop_end,
     warnings |->
        IF loop_end + 1 < Len(smp)
           /\ PhaseIncoherent(Abs(At(smp, loop_end + 1) - At(smp, loop_start)))
        THEN Append(warnings, "phase coherence") ELSE warnings]

\* if loop_end >= total_samples
SCEndHigh(smp, loop_start, loop_end, warnings) ==
    IF loop_end >= Len(smp)
    THEN SCPhase(smp, loop_start, Len(smp) - 1,
                 Append(warnings, "loop_end clamped"))
    ELSE SCPhase(smp, loop_start, loop_end, warnings)

\* if loop_end < loop_start
SCEndLow(smp, loop_start, loop_end, warnings) ==
    IF loop_end < loop_start
    THEN SCEndHigh(smp, loop_start, loop_start,
                   Append(warnings, "loop_end clamped"))
    ELSE SCEndHigh(smp, loop_start, loop_end, warnings)

\* if loop_start >= total_samples
SCStartHigh(smp, loop_start, loop_end, warnings) ==
    IF loop_start >= Len(smp)
    THEN SCEndLow(smp, Len(smp) - 1, loop_end,
                  Append(warnings, "loop_start clamped"))
    ELSE SCEndLow(smp, loop_start, loop_end, warnings)

\* if loop_start < 0 (loop_end is recalculated to maintain the loop length)
\* a variant that clamps a negative loop_start without recomputing loop_end
SCStartLowKeepEnd(smp, new_loop_length, loop_start, loop_end) ==
    IF loop_start < 0
    THEN SCStartHigh(smp, 0, loop_end, <<"loop_start clamped">>)
    ELSE SCStartHigh(smp, loop_start, loop_end, <<>>)

SCStartLow(smp, new_loop_length, loop_start, loop_end) ==
    IF loop_start < 0
    THEN SCStartHigh(smp, 0, 0 + new_loop_length - 1, <<"loop_start clamped">>)
    ELSE SCStartHigh(smp, loop_start, loop_end, <<>>)

\* loop_end = loop_start + new_loop_length - 1, then `if samples:`
SCFromLength(smp, new_loop_length, loop_start) ==
    IF smp # <<>>
    THEN SCStartLow(smp, new_loop_length, loop_start,
                    loop_start + new_loop_length - 1)
    ELSE [loop_start |-> loop_start,
          loop_end |-> loop_start + new_loop_length - 1,
          warnings |-> <<>>]

\* a variant that scales the two endpoints independently
calculate_single_cycle_loop_endpoints(orig_loop_start, orig_loop_end, ratio, smp) ==
    SCFromLength(smp,
        PyRound(orig_loop_end * ratio.n, ratio.d)
            - PyRound(orig_loop_start * ratio.n, ratio.d) + 1,
        PyRound(orig_loop_start * ratio.n, ratio.d))

\* calculate_single_cycle_loop(orig_loop_start, orig_loop_end, resample_ratio,
\* samples): (loop_start, loop_end, warning).  smp is <<>> for samples = None
\* and for an empty list alike (both fail `if samples:`).
calculate_single_cycle_loop(orig_loop_start, orig_loop_end, ratio, smp) ==
    SCFromLength(smp,
        Max2(1, PyRound((orig_loop_end - orig_loop_start + 1) * ratio.n,
                        ratio.d)),
        PyRound(orig_loop_start * ratio.n, ratio.d))

\* a variant of the iteration that also replaces the best pair on an equal
\* score (diff <= best_diff)
OptimizeStepKeepLast(smp, approx_start, approx_end, s_offset, e_offset, best) ==
    LET test_start == approx_start + s_offset
        test_end == approx_end + e_offset
        total_samples == Len(smp)
    IN  IF test_start < 0 \/ test_start >= total_samples THEN best
        ELSE IF test_end < 0 \/ test_end >= total_samples THEN best
        ELSE IF test_end <= test_start THEN best
        ELSE LET diff == Abs(At(smp, test_end) - At(smp, test_start))
             IN  IF ~best.found \/ diff <= best.diff
                 THEN [start |-> test_start, end |-> test_end,
                       diff |-> diff, found |-> TRUE]
                 ELSE best

\* One iteration of the double loop of optimize_loop_points: the candidate
\* with offsets (s_offset, e_offset) against the best pair so far.
\* best.found = FALSE stands for best_diff = float("inf").
OptimizeStep(smp, approx_start, approx_end, s_offset, e_offset, best) ==
    LET test_start == approx_start + s_offset
        test_end == approx_end + e_offset
        total_samples == Len(smp)
    IN  IF test_start < 0 \/ test_start >= total_samples THEN best
        ELSE IF test_end < 0 \/ test_end >= total_samples THEN best
        ELSE IF test_end <= test_start THEN best
        ELSE LET diff == Abs(At(smp, test_end) - At(smp, test_start))
             IN  IF ~best.found \/ diff < best.diff
                 THEN [start |-> test_start, end |-> test_end,
                       diff |-> diff, found |-> TRUE]
                 ELSE best

\* The scan of optimize_loop_points from the idx-th offset pair on, in the
\* order of the nested for loops (s_offset outer, e_offset inner, ascending).
\* The best pair after each iteration is bound as a value (nb) before the
\* scan goes on.
RECURSIVE OptimizeScan(_, _, _, _, _, _)
OptimizeScan(smp, approx_start, approx_end, search_range, idx, best) ==
    LET width == 2 * search_range + 1
    IN  IF idx >= width * width THEN best
        ELSE CHOOSE r \in
                 {OptimizeScan(smp, approx_start, approx_end, search_range,
                               idx + 1, nb) :
                     nb \in {OptimizeStep(smp, approx_start, approx_end,
                                          (idx \div width) - search_range,
                                          (idx % width) - search_range,
                                          best)}} : TRUE

\* optimize_loop_points(samples, approx_start, approx_end, search_range):
\* (best_start, best_end, best_diff)
optimize_loop_points(smp, approx_start, approx_end, search_range) ==
    OptimizeScan(smp, approx_start, approx_end, search_range, 0,
                 [start |-> approx_start, end |-> approx_end,
                  diff |-> 0, found |-> FALSE])


\* opt_diff < orig_diff, where opt_diff is inf when no candidate was valid
OptBetter(opt, orig_diff) == opt.found /\ opt.diff < orig_diff

\* write_elmulti, "Clamp loop points to valid range (safety)": the three
\* clamps that follow the optimization inside the try block, in reverse order

\* if loop_end >= total_samples
ClampEndHigh(loop_start, loop_end, total_samples, warnings) ==
    IF loop_end >= total_samples
    THEN [loop_start |-> loop_start, loop_end |-> total_samples - 1,
          warnings |-> Append(warnings, "loop_end clamped")]
    ELSE [loop_start |-> loop_start, loop_end |-> loop_end,
          warnings |-> warnings]

\* if loop_end < loop_start
ClampEndLow(loop_start, loop_end, total_samples, warnings) ==
    IF loop_end < loop_start
    THEN ClampEndHigh(loop_start, loop_start, total_samples,
                      Append(warnings, "loop_end clamped"))
    ELSE ClampEndHigh(loop_start, loop_end, total_samples, warnings)

\* if loop_start < 0 or loop_start >= total_samples
ClampOptimized(loop_start, loop_end, total_samples) ==
    IF loop_start < 0 \/ loop_start >= total_samples
    THEN ClampEndLow(Max2(0, Min2(loop_start, total_samples - 1)), loop_end,
                     total_samples, <<"loop_start clamped">>)
    ELSE ClampEndLow(loop_start, loop_end, total_samples, <<>>)

\* `if opt_diff < orig_diff:` adopt the optimized pair; then the clamps
AdoptIfBetter(loop_start, loop_end, total_samples, orig_diff, opt) ==
    IF OptBetter(opt, orig_diff)
    THEN ClampOptimized(opt.start, opt.end, total_samples)
             @@ [optimized |-> TRUE]
    ELSE ClampOptimized(loop_start, loop_end, total_samples)
             @@ [optimized |-> FALSE]

\* the bounds test before the search: samples is non-empty and both points
\* are inside it
InsideSamples(smp, loop_start, loop_end) ==
    /\ smp # <<>>
    /\ 0 <= loop_start /\ loop_start < Len(smp)
    /\ 0 <= loop_end /\ loop_end < Len(smp)

\* write_elmulti, the `if optimize_loops and resample_ratio != 1.0:` block.
\* rd is the outcome of read_wav_samples: rd.ok = FALSE when it raises.
OptimizeBlock(loop_start, loop_end, search_range, rd) ==
    IF ~rd.ok
    THEN [loop_start |-> loop_start, loop_end |-> loop_end,
          warnings |-> <<"loop optimization failed">>, optimized |-> FALSE]
    ELSE IF InsideSamples(rd.data, loop_start, loop_end)
         THEN AdoptIfBetter(loop_start, loop_end, Len(rd.data),
                  Abs(At(rd.data, loop_end) - At(rd.data, loop_start)),
                  optimize_loop_points(rd.data, loop_start, loop_end,
                                       search_range))
         ELSE ClampOptimized(loop_start, loop_end, Len(rd.data))
                  @@ [optimized |-> FALSE]

\* a variant that detects single-cycle loops only when optimizing
IsSingleCycleZoneWhenOptimizing(approx_loop_length, ratio, o) ==
    /\ o.optimize_loops
    /\ o.single_cycle_threshold > 0
    /\ ~RatioIsOne(ratio)
    /\ is_single_cycle(approx_loop_length, o.single_cycle_threshold)

\* write_elmulti, the single-cycle test of a looped zone
IsSingleCycleZone(approx_loop_length, ratio, o) ==
    /\ o.single_cycle_threshold > 0
    /\ ~RatioIsOne(ratio)
    /\ is_single_cycle(approx_loop_length, o.single_cycle_threshold)

\* approx_loop_length = round((loop_end - loop_start + 1) * resample_ratio)
ApproxLoopLength(z) ==
    PyRound((z.loop_end - z.loop_start + 1) * z.resample_ratio.n,
            z.resample_ratio.d)

\* read_wav_samples is called for the slot of zone z under options o
ReadsSamples(z, o) ==
    /\ z.loop
    /\ \/ IsSingleCycleZone(ApproxLoopLength(z), z.resample_ratio, o)
       \/ o.optimize_loops /\ ~RatioIsOne(z.resample_ratio)

\* the single-cycle branch: strict ratio calculation (pitch priority)
SingleCycleBranch(approx_loop_length, sc) ==
    [is_sc |-> TRUE, approx_loop_length |-> approx_loop_length,
     unopt_start |-> sc.loop_start, unopt_end |-> sc.loop_end,
     searched |-> FALSE, optimized |-> FALSE,
     loop_start |-> sc.loop_start, loop_end |-> sc.loop_end,
     warnings |-> IF sc.warnings # <<>>
                  THEN <<"single-cycle warning">> ELSE <<>>]

\* the normal branch after the optimization block
NormalOptimized(approx_loop_length, unopt_start, unopt_end, ob) ==
    [is_sc |-> FALSE, approx_loop_length |-> approx_loop_length,
     unopt_start |-> unopt_start, unopt_end |-> unopt_end,
     searched |-> TRUE, optimized |-> ob.optimized,
     loop_start |-> ob.loop_start, loop_end |-> ob.loop_end,
     warnings |-> ob.warnings]

\* the normal branch: standard calculation, optimized if requested
NormalBranch(approx_loop_length, unopt_start, unopt_end, ratio, o, rd) ==
    IF o.optimize_loops /\ ~RatioIsOne(ratio)
    THEN NormalOptimized(approx_loop_length, unopt_start, unopt_end,
             OptimizeBlock(unopt_start, unopt_end, o.loop_search_range, rd))
    ELSE [is_sc |-> FALSE, approx_loop_length |-> approx_loop_length,
          unopt_start |-> unopt_start, unopt_end |-> unopt_end,
          searched |-> FALSE, optimized |-> FALSE,
          loop_start |-> unopt_start, loop_end |-> unopt_end,
          warnings |-> <<>>]

\* write_elmulti, `if zd["loop"]:` up to the final validation: the loop
\* points of the chosen strategy, before validate_sample_position
LoopStrategy(z, o, rd) ==
    IF IsSingleCycleZone(ApproxLoopLength(z), z.resample_ratio, o)
    THEN SingleCycleBranch(ApproxLoopLength(z),
             calculate_single_cycle_loop(z.loop_start, z.loop_end,
                 z.resample_ratio, IF rd.ok THEN rd.data ELSE <<>>))
    ELSE NormalBranch(ApproxLoopLength(z),
             convert_func(o.round_loop_points, z.loop_start, z.resample_ratio),
             convert_func(o.round_loop_points, z.loop_end, z.resample_ratio),
             z.resample_ratio, o, rd)

\* write_elmulti, "Trim points (only if > 0)": the trim lines of the slot
TrimStartLines(z, o) ==
    IF z.trim_start > 0
    THEN [k \in {"trim-start"} |->
             convert_func(o.round_loop_points, z.trim_start, z.resample_ratio)]
    ELSE <<>>

ScaledTrimEnd(z, o) ==
    convert_func(o.round_loop_points, z.trim_end, z.resample_ratio)

TrimEndCheck(z, o, actual_sample_count) ==
    validate_sample_position(ScaledTrimEnd(z, o), actual_sample_count, TRUE)

TrimEndLines(z, o, actual_sample_count) ==
    IF z.trim_end > 0 /\ TrimEndCheck(z, o, actual_sample_count).value > 0
    THEN [k \in {"trim-end"} |-> TrimEndCheck(z, o, actual_sample_count).value]
    ELSE <<>>

TrimEndWarnings(z, o, actual_sample_count) ==
    IF z.trim_end > 0 /\ TrimEndCheck(z, o, actual_sample_count).warned
    THEN <<"trim-end out of bounds, omitting">> ELSE <<>>

\* write_elmulti, "Validate loop-end: clamp if out of bounds" and the two
\* loop lines that follow
LoopEndCheck(loop_end, actual_sample_count) ==
    validate_sample_position(loop_end, actual_sample_count, FALSE)

LoopLines(loop_start, loop_end, actual_sample_count) ==
    LET v == LoopEndCheck(loop_end, actual_sample_count)
    IN  [k \in {"loop-start", "loop-end"} |->
            IF k = "loop-start" THEN loop_start
            ELSE IF v.warned THEN v.value ELSE loop_end]

LoopEndWarnings(loop_end, actual_sample_count) ==
    IF LoopEndCheck(loop_end, actual_sample_count).warned
    THEN <<"loop-end clamped">> ELSE <<>>

\* get_sample_count(wav_path): ffprobe's nb_samples, else the wave module's
\* frame count, else None
get_sample_count(w) ==
    IF w.ffprobe_ok \/ w.wave_ok THEN w.nframes ELSE None


----------------------------------------------------------------------------
(* write_elmulti for one zone *)

\* rates in kHz-like units; 0 stands for target_rate = None
SourceRates == {2}
TargetRates == {0, 1, 4}

\* sample counts ffprobe may report for the source file (accurate_ratio)
SourceCounts == {None, 2}

Positions == 0..MaxPos
TrimStarts == {0, MaxPos}
TrimEnds == {0, 1, MaxPos + 1}

One == [n |-> 1, d |-> 1]

\* the zone dicts a reader hands over: trim and loop fields are whatever
\* the instrument file says; a zone without loop carries loop points 0
Zones ==
    [loop : {TRUE}, loop_start : Positions, loop_end : Positions,
     trim_start : TrimStarts, trim_end : TrimEnds,
     original_rate : SourceRates, resample_ratio : {One}, output_rate : {0}]
    \cup
    [loop : {FALSE}, loop_start : {0}, loop_end : {0},
     trim_start : TrimStarts, trim_end : TrimEnds,
     original_rate : SourceRates, resample_ratio : {One}, output_rate : {0}]

Options ==
    [target_rate : TargetRates, round_loop_points : BOOLEAN,
     accurate_ratio : BOOLEAN, optimize_loops : BOOLEAN,
     loop_search_range : {SearchRange},
     single_cycle_threshold : {0, Threshold}]

\* the shapes of a 24-bit WAV file and what the probes can tell about it:
\* wave_ok = the wave module opens it, ffprobe_ok = ffprobe reports nb_samples
WavShapes ==
    {w \in [nframes : 0..MaxSamples, nchannels : {1, 2},
            ffprobe_ok : BOOLEAN, wave_ok : BOOLEAN] :
        /\ w.nframes * w.nchannels <= MaxSamples
        /\ w.nchannels = 2 => w.nframes > 0
        /\ ~(w.ffprobe_ok /\ w.wave_ok)}

NoStats ==
    [files_processed |-> 0, total_samples |-> 0, resampled_samples |-> 0,
     normalized_samples |-> 0,
     loops_with_loop |-> 0, loops_without_loop |-> 0,
     loops_single_cycle |-> 0, loops_normal |-> 0, loops_optimized |-> 0,
     thin_applied |-> FALSE, thin_factor |-> 0, thin_original_pitches |-> 0,
     thin_result_pitches |-> 0, thin_original_interval |-> 0,
     thin_result_interval |-> 0,
     warnings |-> <<>>]

NoSlot ==
    [is_sc |-> FALSE, approx_loop_length |-> 0, unopt_start |-> 0,
     unopt_end |-> 0, searched |-> FALSE, optimized |-> FALSE,
     loop_start |-> 0, loop_end |-> 0, actual_sample_count |-> None]

NotRead == [read |-> FALSE, ok |-> FALSE, data |-> <<>>]

NoCall == [fn |-> "none"]
NoFiles == {}

\* the variables a specification does not use keep these values
CallIdle == call = NoCall /\ ret = NoCall /\ fs = NoFiles

InitLoop ==
    /\ pc = "convert"
    /\ CallIdle
    /\ opts \in Options
    /\ zd \in Zones
    /\ \E e \in BOOLEAN :
          wav = [exists |-> e, nframes |-> 0, nchannels |-> 1,
                 ffprobe_ok |-> FALSE, wave_ok |-> FALSE]
    /\ samples = NotRead
    /\ lines = <<>>
    /\ conversion_stats = NoStats
    /\ slot = NoSlot

\* convert_to_wav: output_rate of the file ffmpeg writes
OutputRate(original_rate, target_rate) ==
    IF target_rate # 0 /\ target_rate # original_rate
    THEN target_rate ELSE original_rate

\* write_elmulti, "Calculate resample ratio" after a successful transcode
ResampleRatio(accurate_ratio, original_rate, output_rate, original_samples, output_samples) ==
    IF accurate_ratio /\ original_rate # output_rate
       /\ original_samples # None /\ original_samples # 0
       /\ output_samples # None /\ output_samples # 0
       /\ original_samples > 0
    THEN [n |-> output_samples, d |-> original_samples]
    ELSE [n |-> output_rate, d |-> original_rate]

\* write_elmulti, first loop, dest_path does not exist and ffmpeg succeeds:
\* the file w is written, the zone gets its ratio and rate
ConvertZoneOk ==
    /\ pc = "convert"
    /\ ~wav.exists
    /\ \E w \in WavShapes, original_samples \in SourceCounts :
          LET original_rate == zd.original_rate
              output_rate == OutputRate(original_rate, opts.target_rate)
          IN  /\ \/ opts.accurate_ratio /\ original_rate # output_rate
                 \/ original_samples = None
              /\ wav' = [exists |-> TRUE, nframes |-> w.nframes,
                         nchannels |-> w.nchannels,
                         ffprobe_ok |-> w.ffprobe_ok, wave_ok |-> w.wave_ok]
              /\ zd' = [zd EXCEPT
                          !.resample_ratio =
                              ResampleRatio(opts.accurate_ratio, original_rate,
                                            output_rate, original_samples,
                                            get_sample_count(w)),
                          !.output_rate = output_rate]
              /\ conversion_stats' =
                   [conversion_stats EXCEPT
                      !.total_samples = @ + 1,
                      !.resampled_samples =
                          IF original_rate # output_rate THEN @ + 1 ELSE @]
    /\ pc' = "slot"
    /\ UNCHANGED <<opts, samples, lines, slot, call, ret, fs>>

\* write_elmulti, first loop, ffmpeg fails: ConversionError is raised
ConvertZoneFail ==
    /\ pc = "convert"
    /\ ~wav.exists
    /\ pc' = "ConversionError"
    /\ UNCHANGED <<opts, zd, wav, samples, lines, conversion_stats, slot,
                   call, ret, fs>>

\* write_elmulti, first loop, dest_path exists: the file w found there is
\* kept, the ratio is taken to be 1.0
ConvertZoneExists ==
    /\ pc = "convert"
    /\ wav.exists
    /\ \E w \in WavShapes :
          wav' = [exists |-> TRUE, nframes |-> w.nframes,
                  nchannels |-> w.nchannels,
                  ffprobe_ok |-> w.ffprobe_ok, wave_ok |-> w.wave_ok]
    /\ zd' = [zd EXCEPT
                !.resample_ratio = One,
                !.output_rate = IF opts.target_rate # 0 THEN opts.target_rate
                                ELSE zd.original_rate]
    /\ conversion_stats' =
         [conversion_stats EXCEPT !.total_samples = @ + 1]
    /\ pc' = "slot"
    /\ UNCHANGED <<opts, samples, lines, slot, call, ret, fs>>

Concat(a, b) == a \o b

\* write_elmulti, the sample-slot block of the zone: trim lines, loop
\* strategy, final validation, loop lines, statistics and warnings
SampleSlot ==
    /\ pc = "slot"
    /\ \E data \in IF ReadsSamples(zd, opts) /\ wav.wave_ok
                   THEN SampleArrays(wav.nframes * wav.nchannels)
                   ELSE {<<>>} :
       \E actual_sample_count \in {get_sample_count(wav)} :
       \E ls \in {LoopStrategy(zd, opts, [ok |-> wav.wave_ok, data |-> data])} :
       \E trim \in {TrimStartLines(zd, opts)
                      @@ TrimEndLines(zd, opts, actual_sample_count)} :
       \E trimw \in {TrimEndWarnings(zd, opts, actual_sample_count)} :
          /\ samples' = IF ReadsSamples(zd, opts)
                        THEN [read |-> TRUE, ok |-> wav.wave_ok, data |-> data]
                        ELSE NotRead
          /\ IF zd.loop
             THEN /\ lines' = trim @@ LoopLines(ls.loop_start, ls.loop_end,
                                                actual_sample_count)
                  /\ conversion_stats' =
                       [conversion_stats EXCEPT
                          !.loops_with_loop = @ + 1,
                          !.loops_single_cycle = IF ls.is_sc THEN @ + 1 ELSE @,
                          !.loops_normal = IF ls.is_sc THEN @ ELSE @ + 1,
                          !.loops_optimized =
                              IF ls.optimized THEN @ + 1 ELSE @,
                          !.files_processed = @ + 1,
                          !.warnings =
                              Concat(Concat(Concat(@, trimw), ls.warnings),
                                     LoopEndWarnings(ls.loop_end,
                                                     actual_sample_count))]
                  /\ slot' = [is_sc |-> ls.is_sc,
                              approx_loop_length |-> ls.approx_loop_length,
                              unopt_start |-> ls.unopt_start,
                              unopt_end |-> ls.unopt_end,
                              searched |-> ls.searched,
                              optimized |-> ls.optimized,
                              loop_start |-> ls.loop_start,
                              loop_end |-> ls.loop_end,
                              actual_sample_count |-> actual_sample_count]
             ELSE /\ lines' = trim
                  /\ conversion_stats' =
                       [conversion_stats EXCEPT
                          !.loops_without_loop = @ + 1,
                          !.files_processed = @ + 1,
                          !.warnings = Concat(@, trimw)]
                  /\ slot' = [NoSlot EXCEPT
                                !.actual_sample_count = actual_sample_count]
    /\ pc' = "done"
    /\ UNCHANGED <<opts, zd, wav, call, ret, fs>>

NextLoop ==
    \/ ConvertZoneOk
    \/ ConvertZoneFail
    \/ ConvertZoneExists
    \/ SampleSlot

SpecLoop == InitLoop /\ [][NextLoop]_vars


----------------------------------------------------------------------------
(* Properties of the sample-slot step *)

SlotDone == pc = "done"
CountKnown == slot.actual_sample_count # None
Written(k) == k \in DOMAIN lines
HasWarning(w) ==
    \E i \in 1..Len(conversion_stats.warnings) : conversion_stats.warnings[i] = w

\* C1: with a known, positive sample count: a looped zone whose computed
\* loop_end is >= count gets loop-end = count-1 (never omitted) and a warning;
\* a scaled trim_end >= count gets no trim-end line and a warning; values in
\* range are written unchanged without such a warning.
C1_ClampOrOmit ==
    (SlotDone /\ CountKnown /\ slot.actual_sample_count > 0) =>
        /\ (zd.loop /\ slot.loop_end >= slot.actual_sample_count) =>
              /\ Written("loop-end")
              /\ lines["loop-end"] = slot.actual_sample_count - 1
              /\ HasWarning("loop-end clamped")
        /\ (zd.trim_end > 0
              /\ ScaledTrimEnd(zd, opts) >= slot.actual_sample_count) =>
              /\ ~Written("trim-end")
              /\ HasWarning("trim-end out of bounds, omitting")
        /\ (zd.loop /\ 0 <= slot.loop_end
              /\ slot.loop_end < slot.actual_sample_count) =>
              /\ Written("loop-end")
              /\ lines["loop-end"] = slot.loop_end
              /\ ~HasWarning("loop-end clamped")
        /\ (zd.trim_end > 0 /\ 0 < ScaledTrimEnd(zd, opts)
              /\ ScaledTrimEnd(zd, opts) < slot.actual_sample_count) =>
              /\ Written("trim-end")
              /\ lines["trim-end"] = ScaledTrimEnd(zd, opts)
              /\ ~HasWarning("trim-end out of bounds, omitting")

\* a slot where both the loop-end clamp and the trim-end omission happened
C1_Witness ==
    /\ SlotDone /\ CountKnown /\ slot.actual_sample_count > 0
    /\ zd.loop /\ slot.loop_end >= slot.actual_sample_count
    /\ zd.trim_end > 0 /\ ScaledTrimEnd(zd, opts) >= slot.actual_sample_count
    /\ lines["loop-end"] = slot.actual_sample_count - 1
    /\ ~Written("trim-end")

\* C2: every looped zone with 0 <= loop_start <= loop_end is written with
\* loop-start <= loop-end, for every ratio, strategy and output sample count.
C2_LoopOrdered ==
    (SlotDone /\ zd.loop /\ 0 <= zd.loop_start /\ zd.loop_start <= zd.loop_end)
        => lines["loop-start"] <= lines["loop-end"]

InRange(v) == 0 <= v /\ v <= slot.actual_sample_count - 1

\* C3: with a known sample count every loop-start, loop-end, trim-start and
\* trim-end value written lies in [0, count-1].
C3_AllInBounds ==
    (SlotDone /\ CountKnown) =>
        \A k \in DOMAIN lines : InRange(lines[k])

\* amplitude discontinuity |sample[e] - sample[s]| of a pair inside smp
Discontinuity(smp, s, e) == Abs(At(smp, e) - At(smp, s))

\* the normal-loop path ran its search on an unoptimized pair inside the array
C4_Case ==
    /\ SlotDone /\ zd.loop /\ ~slot.is_sc /\ slot.searched /\ samples.ok
    /\ InsideSamples(samples.data, slot.unopt_start, slot.unopt_end)
    /\ slot.unopt_start <= slot.unopt_end

\* C4: in the normal path with optimization and R != 1, the discontinuity of
\* the pair finally emitted is <= that of the unoptimized pair, and without a
\* strictly better pair the unoptimized pair is emitted unchanged.
C4_NeverWorse ==
    C4_Case =>
        /\ InsideSamples(samples.data, lines["loop-start"], lines["loop-end"])
        /\ Discontinuity(samples.data, lines["loop-start"], lines["loop-end"])
              <= Discontinuity(samples.data, slot.unopt_start, slot.unopt_end)
        /\ ~slot.optimized =>
              /\ lines["loop-start"] = slot.unopt_start
              /\ lines["loop-end"] = slot.unopt_end

\* C6 as stated: single-cycle exactly when optimization is enabled, T is
\* nonzero, approx_length <= T and R != 1.
C6_AsStated ==
    (SlotDone /\ zd.loop) =>
        (slot.is_sc <=>
            /\ opts.optimize_loops
            /\ opts.single_cycle_threshold # 0
            /\ slot.approx_loop_length <= opts.single_cycle_threshold
            /\ ~RatioIsOne(zd.resample_ratio))

\* C6 amended: single-cycle exactly when T > 0, approx_length <= T and
\* R != 1, whether or not optimization is enabled; every other looped zone is
\* normal, and exactly one of the two strategies is counted per looped zone.
C6_Classification ==
    (SlotDone /\ zd.loop) =>
        /\ slot.is_sc <=>
              /\ opts.single_cycle_threshold > 0
              /\ PyRound((zd.loop_end - zd.loop_start + 1) * zd.resample_ratio.n,
                         zd.resample_ratio.d) <= opts.single_cycle_threshold
              /\ zd.resample_ratio.n # zd.resample_ratio.d
        /\ conversion_stats.loops_single_cycle = (IF slot.is_sc THEN 1 ELSE 0)
        /\ conversion_stats.loops_normal = (IF slot.is_sc THEN 0 ELSE 1)
        /\ conversion_stats.loops_single_cycle + conversion_stats.loops_normal
              = conversion_stats.loops_with_loop

\* a zone classified single-cycle although optimization is disabled
C6_Witness ==
    /\ SlotDone /\ zd.loop /\ slot.is_sc /\ ~opts.optimize_loops
    /\ conversion_stats.loops_single_cycle = 1


----------------------------------------------------------------------------
(* Calls of calculate_single_cycle_loop *)

\* resample ratios with an exact float value
Ratios == {[n |-> 1, d |-> 2], [n |-> 3, d |-> 4], [n |-> 1, d |-> 1],
           [n |-> 3, d |-> 2], [n |-> 2, d |-> 1]}

\* samples=None is given = FALSE; a list is given = TRUE with its data
SampleArguments ==
    {[given |-> FALSE, data |-> <<>>]}
    \cup {[given |-> TRUE, data |-> d] :
             d \in UNION {SampleArrays(n) : n \in 0..MaxSamples}}

NoZone ==
    [loop |-> FALSE, loop_start |-> 0, loop_end |-> 0, trim_start |-> 0,
     trim_end |-> 0, original_rate |-> 0, resample_ratio |-> One,
     output_rate |-> 0]

NoOptions ==
    [target_rate |-> 0, round_loop_points |-> FALSE, accurate_ratio |-> FALSE,
     optimize_loops |-> FALSE, loop_search_range |-> 0,
     single_cycle_threshold |-> 0]

NoWav ==
    [exists |-> FALSE, nframes |-> 0, nchannels |-> 1, ffprobe_ok |-> FALSE,
     wave_ok |-> FALSE]

\* the variables of write_elmulti, for a specification that does not use them
LoopIdle ==
    /\ opts = NoOptions /\ zd = NoZone /\ wav = NoWav /\ samples = NotRead
    /\ lines = <<>> /\ conversion_stats = NoStats /\ slot = NoSlot

\* loop starts as a file may declare them, negative ones included
CallPositions == (0 - 2)..MaxPos

InitSingleCycle ==
    /\ pc = "call"
    /\ call \in [fn : {"calculate_single_cycle_loop"},
                 orig_loop_start : CallPositions, orig_loop_end : Positions,
                 resample_ratio : Ratios, samples : SampleArguments]
    /\ ret = NoCall
    /\ fs = NoFiles
    /\ LoopIdle

CallSingleCycle ==
    /\ pc = "call"
    /\ call.fn = "calculate_single_cycle_loop"
    /\ ret' = calculate_single_cycle_loop(call.orig_loop_start,
                  call.orig_loop_end, call.resample_ratio, call.samples.data)
    /\ pc' = "returned"
    /\ UNCHANGED <<opts, zd, wav, samples, lines, conversion_stats, slot,
                   call, fs>>

NextSingleCycle == CallSingleCycle

SpecSingleCycle == InitSingleCycle /\ [][NextSingleCycle]_vars

SCReturned == pc = "returned" /\ call.fn = "calculate_single_cycle_loop"

\* round(orig_start * R) and max(1, round(orig_length * R)) of the call
SCScaledStart ==
    PyRound(call.orig_loop_start * call.resample_ratio.n, call.resample_ratio.d)
SCScaledLength ==
    Max2(1, PyRound((call.orig_loop_end - call.orig_loop_start + 1)
                       * call.resample_ratio.n, call.resample_ratio.d))

\* no clamping applies: no samples, or the scaled loop lies inside them
SCNoClamp ==
    \/ call.samples.data = <<>>
    \/ /\ 0 <= SCScaledStart
       /\ SCScaledStart < Len(call.samples.data)
       /\ SCScaledStart + SCScaledLength - 1 < Len(call.samples.data)

\* C5: without clamping calculate_single_cycle_loop returns
\* loop_start = round(orig_start * R) and a loop of the rounded scaled length
\* max(1, round(orig_length * R)); for R = 1 the loop returned for an input
\* loop (orig_start <= orig_end) is the input loop.
C5_LengthScaled ==
    (SCReturned /\ SCNoClamp) =>
        /\ ret.loop_start = SCScaledStart
        /\ ret.loop_end - ret.loop_start + 1 = SCScaledLength
        /\ (call.resample_ratio.n = call.resample_ratio.d
              /\ call.orig_loop_start <= call.orig_loop_end) =>
              /\ ret.loop_start = call.orig_loop_start
              /\ ret.loop_end = call.orig_loop_end

\* a call where scaling the end point on its own would give another length:
\* loop (1, 2) at R = 1/2 has length 1, not round(2/2) - round(1/2) + 1 = 2
C5_Witness ==
    /\ SCReturned /\ SCNoClamp
    /\ call.orig_loop_start = 1 /\ call.orig_loop_end = 2
    /\ call.resample_ratio = [n |-> 1, d |-> 2]
    /\ ret.loop_start = 0 /\ ret.loop_end = 0


\* loop_start had to be clamped: the scaled start lies outside the samples
SCStartClamped ==
    /\ call.samples.data # <<>>
    /\ \/ SCScaledStart < 0
       \/ SCScaledStart >= Len(call.samples.data)

----------------------------------------------------------------------------
(* Sample thinning *)

SetMin(S) == CHOOSE m \in S : \A x \in S : m <= x
SetMax(S) == CHOOSE m \in S : \A x \in S : m >= x

\* sorted(S) of a set of integers
RECURSIVE Sorted(_)
Sorted(S) ==
    IF S = {} THEN <<>> ELSE <<SetMin(S)>> \o Sorted(S \ {SetMin(S)})

Range(s) == {s[i] : i \in DOMAIN s}

\* intervals = [unique_pitches[i + 1] - unique_pitches[i] for i in ...]
Intervals(unique_pitches) ==
    [i \in 1..(Len(unique_pitches) - 1) |->
        unique_pitches[i + 1] - unique_pitches[i]]

\* intervals.count(v)
Count(intervals, v) == Cardinality({i \in DOMAIN intervals : intervals[i] = v})

\* max(set(intervals), key=intervals.count): the first most frequent value
\* in the iteration order of the set, which the language leaves open; every
\* most frequent value is a possible result
ModeCandidates(unique_pitches) ==
    IF Len(unique_pitches) >= 2
    THEN {v \in Range(Intervals(unique_pitches)) :
             \A w \in Range(Intervals(unique_pitches)) :
                 Count(Intervals(unique_pitches), v)
                     >= Count(Intervals(unique_pitches), w)}
    ELSE {0}

UniquePitches(zone_data) == Sorted({zone_data[i].pitch : i \in DOMAIN zone_data})

\* max(len(v) for v in vel_layers_by_pitch.values())
VelocityLayers(zone_data) ==
    SetMax({Cardinality({zone_data[j].minvel :
                            j \in {k \in DOMAIN zone_data :
                                      zone_data[k].pitch = zone_data[i].pitch}}) :
               i \in DOMAIN zone_data})

\* analyze_sample_map(zone_data); interval is the mode that max() returned
analyze_sample_map(zone_data, interval) ==
    IF zone_data = <<>>
    THEN [unique_pitches |-> <<>>, pitch_count |-> 0, zone_count |-> 0,
          interval |-> 0, pitch_range |-> <<0, 0>>, velocity_layers |-> 0,
          has_round_robin |-> FALSE]
    ELSE [unique_pitches |-> UniquePitches(zone_data),
          pitch_count |-> Len(UniquePitches(zone_data)),
          zone_count |-> Len(zone_data),
          interval |-> interval,
          pitch_range |-> <<SetMin(Range(UniquePitches(zone_data))),
                            SetMax(Range(UniquePitches(zone_data)))>>,
          velocity_layers |-> VelocityLayers(zone_data),
          has_round_robin |->
              \E i \in DOMAIN zone_data : zone_data[i].rr_position >= 0]

\* dist = min((pitch % 12 - anchor) % 12, (anchor - pitch % 12) % 12)
PitchClassDist(pitch, anchor) ==
    Min2(((pitch % 12) - anchor) % 12, (anchor - (pitch % 12)) % 12)

\* the for-else branch: the first pitch with the smallest distance
RECURSIVE ClosestScan(_, _, _, _, _)
ClosestScan(unique_pitches, anchor, i, min_dist, start_idx) ==
    IF i >= Len(unique_pitches)
    THEN start_idx
    ELSE IF PitchClassDist(At(unique_pitches, i), anchor) < min_dist
         THEN ClosestScan(unique_pitches, anchor, i + 1,
                  PitchClassDist(At(unique_pitches, i), anchor), i)
         ELSE ClosestScan(unique_pitches, anchor, i + 1, min_dist, start_idx)

\* a variant without the search for the closest pitch class
StartIndexExactOnly(unique_pitches, anchor) ==
    IF \E i \in 0..(Len(unique_pitches) - 1) : At(unique_pitches, i) % 12 = anchor
    THEN SetMin({i \in 0..(Len(unique_pitches) - 1) :
                    At(unique_pitches, i) % 12 = anchor})
    ELSE 0

\* the starting index: the first pitch whose pitch class matches anchor,
\* else the closest pitch class
StartIndex(unique_pitches, anchor) ==
    IF \E i \in 0..(Len(unique_pitches) - 1) : At(unique_pitches, i) % 12 = anchor
    THEN SetMin({i \in 0..(Len(unique_pitches) - 1) :
                    At(unique_pitches, i) % 12 = anchor})
    ELSE ClosestScan(unique_pitches, anchor, 0, 12, 0)

\* for i in range(start_idx, len(unique_pitches), thin_factor)
RECURSIVE ForwardSelection(_, _, _, _)
ForwardSelection(unique_pitches, i, thin_factor, selected_pitches) ==
    IF i >= Len(unique_pitches)
    THEN selected_pitches
    ELSE ForwardSelection(unique_pitches, i + thin_factor, thin_factor,
             selected_pitches \cup {At(unique_pitches, i)})

\* for i in range(start_idx - thin_factor, -1, -thin_factor)
RECURSIVE BackwardSelection(_, _, _, _)
BackwardSelection(unique_pitches, i, thin_factor, selected_pitches) ==
    IF i <= 0 - 1
    THEN selected_pitches
    ELSE BackwardSelection(unique_pitches, i - thin_factor, thin_factor,
             selected_pitches \cup {At(unique_pitches, i)})

\* a variant without the backward selection
SelectedPitchesForward(unique_pitches, start_idx, thin_factor) ==
    ForwardSelection(unique_pitches, start_idx, thin_factor, {})

SelectedPitches(unique_pitches, start_idx, thin_factor) ==
    BackwardSelection(unique_pitches, start_idx - thin_factor, thin_factor,
        ForwardSelection(unique_pitches, start_idx, thin_factor, {}))

\* thinned_data = [zd for zd in zone_data if zd["pitch"] in selected_pitches]
KeepSelected(zone_data, selected_pitches) ==
    SelectSeq(zone_data, LAMBDA z : z.pitch \in selected_pitches)

Raise(exception) == [raised |-> exception]

\* apply_thinning after the max_interval check: selection, filter, stats
ThinReturn(zone_data, thin_factor, anchor, analysis, selected_pitches) ==
    [raised |-> "none",
     zone_data |-> KeepSelected(zone_data, selected_pitches),
     stats |->
        [original_pitches |-> Len(analysis.unique_pitches),
         result_pitches |-> Cardinality(selected_pitches),
         removed_pitches |->
             Len(analysis.unique_pitches) - Cardinality(selected_pitches),
         original_interval |-> analysis.interval,
         result_interval |-> analysis.interval * thin_factor,
         original_zones |-> Len(zone_data),
         result_zones |-> Len(KeepSelected(zone_data, selected_pitches)),
         anchor |-> anchor,
         selected_pitches |-> Sorted(selected_pitches)]]

\* apply_thinning, `if len(unique_pitches) < 2:` nothing to thin
ThinNothing(zone_data, anchor, analysis) ==
    [raised |-> "none",
     zone_data |-> zone_data,
     stats |->
        [original_pitches |-> Len(analysis.unique_pitches),
         result_pitches |-> Len(analysis.unique_pitches),
         removed_pitches |-> 0,
         original_interval |-> analysis.interval,
         result_interval |-> analysis.interval,
         original_zones |-> Len(zone_data),
         result_zones |-> Len(zone_data),
         anchor |-> anchor,
         selected_pitches |-> analysis.unique_pitches]]

\* a variant that compares the original interval with the cap
CapExceededByOriginal(thin_factor, max_interval, analysis) ==
    /\ max_interval # None
    /\ analysis.interval > max_interval

\* the max_interval constraint is violated
CapExceeded(thin_factor, max_interval, analysis) ==
    /\ max_interval # None
    /\ analysis.interval * thin_factor > max_interval

\* apply_thinning(zone_data, thin_factor, anchor, max_interval); analysis is
\* what analyze_sample_map(zone_data) returned
apply_thinning(zone_data, thin_factor, anchor, max_interval, analysis) ==
    IF thin_factor < 2
    THEN Raise("ValidationError")
    ELSE IF Len(analysis.unique_pitches) < 2
    THEN ThinNothing(zone_data, anchor, analysis)
    ELSE IF CapExceeded(thin_factor, max_interval, analysis)
    THEN Raise("ValidationError")
             @@ [result_interval |-> analysis.interval * thin_factor,
                 max_interval |-> max_interval,
                 suggestion |-> max_interval \div analysis.interval]
    ELSE ThinReturn(zone_data, thin_factor, anchor, analysis,
             SelectedPitches(analysis.unique_pitches,
                 StartIndex(analysis.unique_pitches, anchor), thin_factor))


\* a zone list over the pitch set S: `layers` velocity layers per pitch, two
\* round-robin zones per layer if rr; order "asc" and "desc" list the zones
\* pitch by pitch, "layered" lists every layer over all pitches in turn
ZonesOfPitch(pitch, layers, rr) ==
    IF rr
    THEN [i \in 1..(2 * layers) |->
             [pitch |-> pitch, minvel |-> ((i - 1) \div 2) * 64,
              rr_position |-> (i - 1) % 2]]
    ELSE [i \in 1..layers |->
             [pitch |-> pitch, minvel |-> (i - 1) * 64, rr_position |-> None]]

RECURSIVE PitchMajor(_, _, _)
PitchMajor(pitches, layers, rr) ==
    IF pitches = <<>>
    THEN <<>>
    ELSE ZonesOfPitch(Head(pitches), layers, rr)
             \o PitchMajor(Tail(pitches), layers, rr)

Reverse(s) == [i \in 1..Len(s) |-> s[Len(s) + 1 - i]]

\* the zones of velocity layer `layer`, over all pitches in ascending order
ZonesOfLayer(zone_data, layer) ==
    SelectSeq(zone_data, LAMBDA z : z.minvel = (layer - 1) * 64)

RECURSIVE LayerMajor(_, _, _)
LayerMajor(zone_data, layer, layers) ==
    IF layer > layers
    THEN <<>>
    ELSE ZonesOfLayer(zone_data, layer) \o LayerMajor(zone_data, layer + 1, layers)

ZoneList(S, order, layers, rr) ==
    IF order = "asc" THEN PitchMajor(Sorted(S), layers, rr)
    ELSE IF order = "desc" THEN Reverse(PitchMajor(Sorted(S), layers, rr))
    ELSE LayerMajor(PitchMajor(Sorted(S), layers, rr), 1, layers)

SmallPitches == BasePitch..(BasePitch + MaxPitches - 1)

\* every small pitch set with every layout; the chromatic octave 60..72 and
\* a chromatic range of 24 pitches with one zone per pitch
ZoneLists ==
    {ZoneList(S, order, layers, rr) :
        S \in SUBSET SmallPitches, order \in {"asc", "desc", "layered"},
        layers \in 1..MaxLayers, rr \in BOOLEAN}
    \cup {ZoneList(S, order, 1, FALSE) :
              S \in {60..72, 48..71}, order \in {"asc", "desc"}}

Anchors == 0..11
ThinFactors == 1..MaxThin
MaxIntervals == {None} \cup 1..MaxCap

InitThin ==
    /\ pc = "call"
    /\ call \in [fn : {"apply_thinning"}, zone_data : ZoneLists,
                 thin_factor : ThinFactors, anchor : Anchors,
                 max_interval : MaxIntervals]
    /\ ret = NoCall
    /\ fs = NoFiles
    /\ LoopIdle

\* apply_thinning returns or raises
ApplyThinning ==
    /\ pc = "call"
    /\ call.fn = "apply_thinning"
    /\ \E interval \in ModeCandidates(UniquePitches(call.zone_data)) :
          \E analysis \in {analyze_sample_map(call.zone_data, interval)} :
              ret' = apply_thinning(call.zone_data, call.thin_factor,
                         call.anchor, call.max_interval, analysis)
    /\ pc' = "returned"
    /\ UNCHANGED <<opts, zd, wav, samples, lines, conversion_stats, slot,
                   call, fs>>

NextThin == ApplyThinning

SpecThin == InitThin /\ [][NextThin]_vars

----------------------------------------------------------------------------
(* Properties of apply_thinning *)

ThinReturned ==
    pc = "returned" /\ call.fn = "apply_thinning" /\ ret.raised = "none"
ThinRaised ==
    pc = "returned" /\ call.fn = "apply_thinning"
        /\ ret.raised = "ValidationError"

\* the ascending list of distinct pitches of the zone list passed in
CallPitches == Sorted({call.zone_data[i].pitch : i \in DOMAIN call.zone_data})

\* the 0-based index of a pitch in the ascending list of distinct pitches
PitchIndex(pitches, pitch) == Cardinality({q \in pitches : q < pitch})

\* the pitches of the zone list returned
KeptPitches == {ret.zone_data[i].pitch : i \in DOMAIN ret.zone_data}

\* the zones of zone_data at the pitches whose index is congruent to
\* start_idx modulo thin_factor, in their order in zone_data
EveryNth(zone_data, pitches, start_idx, thin_factor) ==
    SelectSeq(zone_data,
        LAMBDA z : PitchIndex(pitches, z.pitch) % thin_factor
                       = start_idx % thin_factor)

\* C7: with N >= 2 and at least two distinct pitches apply_thinning returns
\* exactly the zones, in their original order, whose pitch has an index
\* congruent to start_idx modulo N in the ascending list of distinct pitches;
\* for N = 2, anchor 0 and pitches 60..72 it keeps {60,62,64,66,68,70,72}.
C7_EveryNth ==
    (ThinReturned /\ call.thin_factor >= 2) =>
        \A up \in {CallPitches} :
            Len(up) >= 2 =>
                /\ ret.zone_data =
                      EveryNth(call.zone_data, Range(up),
                          StartIndex(up, call.anchor), call.thin_factor)
                /\ ret.stats.result_pitches = Cardinality(KeptPitches)
                /\ (Range(up) = 60..72 /\ call.thin_factor = 2
                       /\ call.anchor = 0) =>
                      KeptPitches = {60, 62, 64, 66, 68, 70, 72}

\* pitches 60..72 thinned by 2 from anchor C
C7_Witness ==
    /\ ThinReturned /\ call.thin_factor = 2 /\ call.anchor = 0
    /\ Len(call.zone_data) = 13
    /\ {call.zone_data[i].pitch : i \in DOMAIN call.zone_data} = 60..72
    /\ KeptPitches = {60, 62, 64, 66, 68, 70, 72}

\* the distance of two pitch classes on the circle of 12
CircularDistance(a, b) == Min2(Abs(a - b), 12 - Abs(a - b))

\* the pitches of P whose pitch class is nearest to the anchor
Nearest(P, anchor) ==
    {p \in P : \A q \in P :
        CircularDistance(p % 12, anchor) <= CircularDistance(q % 12, anchor)}

\* the lowest pitch of the anchor's class, else the lowest of the nearest
ExpectedStart(P, anchor) ==
    IF \E p \in P : p % 12 = anchor THEN SetMin({p \in P : p % 12 = anchor})
    ELSE SetMin(Nearest(P, anchor))

\* C23: the start of the selection is the first pitch, ascending, of the
\* anchor's pitch class, else the lowest pitch whose pitch class is nearest
\* to the anchor on the circle of 12; the start pitch is kept, and the kept
\* pitches are those at every N-th place counted from it.
C23_StartAtAnchor ==
    (ThinReturned /\ call.thin_factor >= 2) =>
        \A up \in {CallPitches} :
            Len(up) >= 2 =>
                \A start \in {ExpectedStart(Range(up), call.anchor)} :
                    /\ At(up, StartIndex(up, call.anchor)) = start
                    /\ start \in KeptPitches
                    /\ ret.zone_data =
                          EveryNth(call.zone_data, Range(up),
                              PitchIndex(Range(up), start), call.thin_factor)

\* no pitch of the anchor's class, two pitches equally near: the lower one
\* starts, and it is not the lowest pitch
C23_Witness ==
    /\ ThinReturned /\ call.thin_factor = 2 /\ call.anchor = 2
    /\ {call.zone_data[i].pitch : i \in DOMAIN call.zone_data} = {59, 61, 63}
    /\ KeptPitches = {61}

\* the most frequent value of gaps whose first occurrence comes first
FirstMode(gaps) ==
    gaps[SetMin({i \in DOMAIN gaps :
                    \A j \in DOMAIN gaps : Count(gaps, gaps[i]) >= Count(gaps, gaps[j])})]

\* C24: the dominant interval is the most frequent gap between adjacent
\* distinct pitches and, among equally frequent gaps, the one that occurs
\* first in ascending pitch order.
C24_FirstOccurrenceWins ==
    ThinReturned =>
        \A up \in {CallPitches} :
            Len(up) >= 2 => ret.stats.original_interval = FirstMode(Intervals(up))

\* d is a most frequent value of the sequence gaps
IsDominant(gaps, d) ==
    /\ d \in Range(gaps)
    /\ \A e \in Range(gaps) :
          Cardinality({i \in DOMAIN gaps : gaps[i] = d})
              >= Cardinality({i \in DOMAIN gaps : gaps[i] = e})

\* raised exactly when a cap is supplied and dominant * N exceeds it, where
\* gaps are the gaps between adjacent distinct pitches
CapEnforced(gaps) ==
    /\ ThinRaised =>
          /\ call.max_interval # None
          /\ ret.result_interval > call.max_interval
          /\ \E d \in Range(gaps) :
                IsDominant(gaps, d) /\ ret.result_interval = d * call.thin_factor
    /\ ThinReturned =>
          /\ \/ call.max_interval = None
             \/ ret.stats.result_interval <= call.max_interval
          /\ \E d \in Range(gaps) :
                /\ IsDominant(gaps, d)
                /\ ret.stats.result_interval = d * call.thin_factor
    /\ (call.max_interval # None
          /\ \A d \in Range(gaps) :
                IsDominant(gaps, d) => d * call.thin_factor > call.max_interval)
          => ThinRaised
    /\ (call.max_interval # None
          /\ \A d \in Range(gaps) :
                IsDominant(gaps, d) => d * call.thin_factor <= call.max_interval)
          => ThinReturned

\* C8: for a thinning factor N >= 2 and at least two distinct pitches,
\* apply_thinning raises ValidationError exactly when a cap is supplied and
\* dominant_interval * N exceeds it; otherwise it returns a thinned list.
C8_CapEnforced ==
    (pc = "returned" /\ call.fn = "apply_thinning" /\ call.thin_factor >= 2) =>
        \A up \in {CallPitches} :
            Len(up) >= 2 =>
                \A gaps \in {[i \in 1..(Len(up) - 1) |-> up[i + 1] - up[i]]} :
                    CapEnforced(gaps)

\* N = 3 on a chromatic range of 24 pitches with a cap of 2 is refused
C8_Witness ==
    /\ ThinRaised /\ call.thin_factor = 3 /\ call.max_interval = 2
    /\ Len(call.zone_data) = 24
    /\ {call.zone_data[i].pitch : i \in DOMAIN call.zone_data} = 48..71
    /\ ret.result_interval = 3

\* the gaps between adjacent kept pitches
KeptGaps ==
    {Sorted(KeptPitches)[i + 1] - Sorted(KeptPitches)[i] :
        i \in 1..(Cardinality(KeptPitches) - 1)}

\* C9: when apply_thinning succeeds with a cap M, every gap between two
\* adjacent kept pitches is at most M semitones.
C9_CapRespected ==
    (ThinReturned /\ call.thin_factor >= 2 /\ call.max_interval # None) =>
        \A g \in KeptGaps : g <= call.max_interval


----------------------------------------------------------------------------
(* convert_to_elmulti *)

MAX_NAME_ERROR == 64

\* validate_name_length(name, prefix) raises ValueError
NameTooLong(name_len, prefix_len) == prefix_len + name_len > MAX_NAME_ERROR

OutputDir == [kind |-> "dir"]
MappingFile == [kind |-> "elmulti"]
WavFile(i) == [kind |-> "wav", zone |-> i]

\* the zones of zone_data that write_elmulti has given a new_filename
MarkWritten(zone_data, processed) ==
    [i \in DOMAIN zone_data |->
        IF \E j \in DOMAIN processed : processed[j] = zone_data[i]
        THEN [new_filename |-> TRUE] @@ zone_data[i]
        ELSE zone_data[i]]

\* write_elmulti as far as files are concerned: os.makedirs, one WAV per zone
\* until convert_to_wav fails (zone number `failing`, 0 = none), then the
\* mapping file.  parsed is the zone list of the parser, zone_data the list
\* passed to write_elmulti (the same zone objects).
WriteFiles(parsed, zone_data, failing, stats) ==
    IF failing = 0 \/ failing > Len(zone_data)
    THEN [raised |-> "none",
          fs |-> {OutputDir, MappingFile}
                     \cup {WavFile(i) : i \in 1..Len(zone_data)},
          zone_data |-> MarkWritten(parsed, zone_data),
          stats |-> [stats EXCEPT !.total_samples = @ + Len(zone_data)]]
    ELSE [raised |-> "ConversionError",
          fs |-> {OutputDir} \cup {WavFile(i) : i \in 1..(failing - 1)},
          zone_data |-> MarkWritten(parsed, SubSeq(zone_data, 1, failing - 1)),
          stats |-> [stats EXCEPT !.total_samples = @ + (failing - 1)]]

\* a variant that creates the output directory before it validates the name
ValidateNameAfterMakedirs(c, zone_data, failing, stats) ==
    IF NameTooLong(c.name_len, c.prefix_len)
    THEN [raised |-> "ValidationError", fs |-> {OutputDir},
          zone_data |-> c.zone_data, stats |-> stats]
    ELSE WriteFiles(c.zone_data, zone_data, failing, stats)

\* convert_to_elmulti from the name validation on
ValidateNameAndWrite(c, zone_data, failing, stats) ==
    IF NameTooLong(c.name_len, c.prefix_len)
    THEN [raised |-> "ValidationError", fs |-> {},
          zone_data |-> c.zone_data, stats |-> stats]
    ELSE WriteFiles(c.zone_data, zone_data, failing, stats)

\* conversion_stats after `if thin_factor is not None:`
ThinStats(stats, thin_factor, thin_stats) ==
    [stats EXCEPT !.thin_applied = TRUE,
                  !.thin_factor = thin_factor,
                  !.thin_original_pitches = thin_stats.original_pitches,
                  !.thin_result_pitches = thin_stats.result_pitches,
                  !.thin_original_interval = thin_stats.original_interval,
                  !.thin_result_interval = thin_stats.result_interval]

\* convert_to_elmulti after apply_thinning returned or raised `thinned`
AfterThinning(c, thinned, failing, stats) ==
    IF thinned.raised # "none"
    THEN [raised |-> thinned.raised, fs |-> {}, zone_data |-> c.zone_data,
          stats |-> stats]
    ELSE ValidateNameAndWrite(c, thinned.zone_data, failing,
             ThinStats(stats, c.thin_factor, thinned.stats))

\* convert_to_elmulti after the parser returned zone_data
ThinAndWrite(c, analysis, failing, stats) ==
    IF c.thin_factor # None
    THEN AfterThinning(c,
             apply_thinning(c.zone_data, c.thin_factor, c.thin_anchor,
                 c.thin_max_interval, analysis),
             failing, stats)
    ELSE ValidateNameAndWrite(c, c.zone_data, failing, stats)

\* convert_to_elmulti(input_path, output_dir, ...): parse_error is what the
\* parser raises ("none": it returns c.zone_data), failing the zone whose
\* transcoding fails (0: none)
convert_to_elmulti(c, parse_error, analysis, failing, stats) ==
    IF c.ext \notin {".exs", ".sfz"}
    THEN [raised |-> "ValidationError", fs |-> {}, zone_data |-> c.zone_data,
          stats |-> stats]
    ELSE IF parse_error # "none"
    THEN [raised |-> parse_error, fs |-> {}, zone_data |-> c.zone_data,
          stats |-> stats]
    ELSE ThinAndWrite(c, analysis, failing, stats)

\* the zone lists a parser returns here: one zone per pitch, ascending
ParsedZoneLists == {ZoneList(S, "asc", 1, FALSE) : S \in SUBSET SmallPitches}

Extensions == {".exs", ".sfz", ".wav"}
NameLengths == {1, 25, 64, 65}
PrefixLengths == {0, 40}
ParseErrors == {"none", "ConversionError"}

InitConvert ==
    /\ pc = "call"
    /\ call \in [fn : {"convert_to_elmulti"}, ext : Extensions,
                 zone_data : ParsedZoneLists,
                 name_len : NameLengths, prefix_len : PrefixLengths,
                 thin_factor : {None} \cup ThinFactors,
                 thin_anchor : {0, 1},
                 thin_max_interval : MaxIntervals]
    /\ ret = NoCall
    /\ fs = NoFiles
    /\ opts = NoOptions /\ zd = NoZone /\ wav = NoWav /\ samples = NotRead
    /\ lines = <<>> /\ conversion_stats = NoStats /\ slot = NoSlot

\* convert_to_elmulti returns or raises
ConvertToElmulti ==
    /\ pc = "call"
    /\ call.fn = "convert_to_elmulti"
    /\ \E parse_error \in ParseErrors, failing \in 0..Len(call.zone_data),
          interval \in ModeCandidates(UniquePitches(call.zone_data)) :
          \E r \in {convert_to_elmulti(call, parse_error,
                        analyze_sample_map(call.zone_data, interval),
                        failing, conversion_stats)} :
              /\ ret' = [raised |-> r.raised, zone_data |-> r.zone_data]
              /\ fs' = r.fs
              /\ conversion_stats' = r.stats
    /\ pc' = "returned"
    /\ UNCHANGED <<opts, zd, wav, samples, lines, slot, call>>

NextConvert == ConvertToElmulti

SpecConvert == InitConvert /\ [][NextConvert]_vars

ConvertRaised(exception) ==
    pc = "returned" /\ call.fn = "convert_to_elmulti" /\ ret.raised = exception

\* C10: whenever convert_to_elmulti raises ValidationError, no output
\* directory, WAV file or mapping file has been created and the zone list is
\* unchanged; it returns only for a supported extension, a thinning factor
\* that is absent or >= 2, a cap that is not exceeded and a prefix+name of at
\* most 64 characters.
C10_RejectedBeforeEffects ==
    /\ ConvertRaised("ValidationError") =>
          /\ fs = {}
          /\ ret.zone_data = call.zone_data
          /\ conversion_stats.total_samples = 0
    /\ ConvertRaised("none") =>
          /\ call.ext \in {".exs", ".sfz"}
          /\ call.thin_factor = None \/ call.thin_factor >= 2
          /\ call.prefix_len + call.name_len <= 64
          /\ (call.thin_factor # None /\ call.thin_max_interval # None
                 /\ Len(call.zone_data) >= 2) =>
                conversion_stats.thin_result_interval <= call.thin_max_interval
          /\ OutputDir \in fs /\ MappingFile \in fs

\* the latest rejection: the name is found too long after thinning succeeded
C10_Witness ==
    /\ ConvertRaised("ValidationError")
    /\ call.prefix_len + call.name_len > 64
    /\ call.thin_factor = 2 /\ conversion_stats.thin_applied
    /\ Len(call.zone_data) >= 2 /\ fs = {}


----------------------------------------------------------------------------
(* Calls of optimize_loop_points *)

\* sample arrays with three equally spaced amplitude levels
SearchArrays == UNION {[1..n -> {0, LoudAmp, 2 * LoudAmp}] : n \in 0..MaxSamples}

\* approximate loop points, some of them outside every array
SearchPositions == (0 - 1)..(MaxPos + 1)

InitOptimize ==
    /\ pc = "call"
    /\ call \in [fn : {"optimize_loop_points"}, samples : SearchArrays,
                 approx_start : SearchPositions, approx_end : SearchPositions,
                 search_range : 0..(SearchRange + 1)]
    /\ ret = NoCall
    /\ fs = NoFiles
    /\ LoopIdle

CallOptimize ==
    /\ pc = "call"
    /\ call.fn = "optimize_loop_points"
    /\ ret' = optimize_loop_points(call.samples, call.approx_start,
                  call.approx_end, call.search_range)
    /\ pc' = "returned"
    /\ UNCHANGED <<opts, zd, wav, samples, lines, conversion_stats, slot,
                   call, fs>>

NextOptimize == CallOptimize

SpecOptimize == InitOptimize /\ [][NextOptimize]_vars

OptReturned == pc = "returned" /\ call.fn = "optimize_loop_points"

\* the offset pairs (ds, de) whose candidate indices are inside the array
\* with candidate_end > candidate_start
Candidates ==
    {c \in ((0 - call.search_range)..call.search_range)
              \X ((0 - call.search_range)..call.search_range) :
        /\ 0 <= call.approx_start + c[1]
        /\ call.approx_start + c[1] < Len(call.samples)
        /\ 0 <= call.approx_end + c[2]
        /\ call.approx_end + c[2] < Len(call.samples)
        /\ call.approx_end + c[2] > call.approx_start + c[1]}

\* |sample[end] - sample[start]| of the candidate with offsets c
Score(c) ==
    Abs(call.samples[call.approx_end + c[2] + 1]
            - call.samples[call.approx_start + c[1] + 1])

\* c comes before e in scan order: ds ascending, then de ascending
ScansBefore(c, e) == c[1] < e[1] \/ (c[1] = e[1] /\ c[2] <= e[2])

\* C19: optimize_loop_points returns the candidate of globally minimal score
\* among all valid offset pairs in [-K, K] x [-K, K], the first in scan order
\* among equally minimal ones, and the input pair when no candidate is valid.
C19_GlobalMinimum ==
    OptReturned =>
        /\ Candidates = {} =>
              /\ ~ret.found
              /\ ret.start = call.approx_start /\ ret.end = call.approx_end
        /\ Candidates # {} =>
              /\ ret.found
              /\ \E c \in Candidates :
                    /\ ret.start = call.approx_start + c[1]
                    /\ ret.end = call.approx_end + c[2]
                    /\ ret.diff = Score(c)
                    /\ \A e \in Candidates :
                          /\ Score(c) <= Score(e)
                          /\ Score(e) = Score(c) => ScansBefore(c, e)

\* a search with several equally minimal candidates that moved the pair
C19_Witness ==
    /\ OptReturned /\ ret.found
    /\ ret.start # call.approx_start
    /\ \E c, e \in Candidates :
          c # e /\ Score(c) = ret.diff /\ Score(e) = ret.diff
    /\ \E c \in Candidates : Score(c) > ret.diff


----------------------------------------------------------------------------
(* EXSInstrument.__init__ *)

EXSHeader_sig == 257
EXSHeader_sig_new == 1073742081
MAX_EXS_SIZE == 1048576

\* struct.unpack_from("<I", data, 0)[0] and struct.unpack_from(">I", data, 0)[0]
\* on the first four bytes b
UnpackLE(b) == b[1] + b[2] * 256 + b[3] * 65536 + b[4] * 16777216
UnpackBE(b) == b[4] + b[3] * 256 + b[2] * 65536 + b[1] * 16777216

RaiseWith(exception, message) == [raised |-> exception, message |-> message]

\* EXSInstrument.__init__ on a file of st_size bytes whose first four bytes
\* are magic and whose bytes 16..19 are marker ("none": any other bytes)
EXSInstrument_init(st_size, magic, marker) ==
    IF st_size > MAX_EXS_SIZE
    THEN RaiseWith("RuntimeError", "EXS file is too large (> 1MB)")
    ELSE IF st_size < 4
    THEN RaiseWith("struct.error", "unpack_from requires a buffer")
    ELSE IF UnpackBE(magic) = EXSHeader_sig /\ marker = "SOBT"
    THEN RaiseWith("RuntimeError", "Big endian EXS files are not supported")
    ELSE IF ~(UnpackLE(magic) = EXSHeader_sig
                 \/ UnpackLE(magic) = EXSHeader_sig_new)
            /\ marker = "TBOS"
    THEN RaiseWith("RuntimeError", "Not a valid EXS file")
    ELSE RaiseWith("none", "")

\* the first four bytes of a file, each byte one of 0x00, 0x01, 0x40
Magics == [1..4 -> {0, 1, 64}]
Markers == {"TBOS", "SOBT", "none"}
FileSizes == {0, 84, MAX_EXS_SIZE, MAX_EXS_SIZE + 1}

InitOpen ==
    /\ pc = "call"
    /\ call \in [fn : {"EXSInstrument"}, st_size : FileSizes, magic : Magics,
                 marker : Markers]
    /\ ret = NoCall
    /\ fs = NoFiles
    /\ LoopIdle

OpenInstrument ==
    /\ pc = "call"
    /\ call.fn = "EXSInstrument"
    /\ ret' = EXSInstrument_init(call.st_size, call.magic, call.marker)
    /\ pc' = "returned"
    /\ UNCHANGED <<opts, zd, wav, samples, lines, conversion_stats, slot,
                   call, fs>>

NextOpen == OpenInstrument

SpecOpen == InitOpen /\ [][NextOpen]_vars

Opened == pc = "returned" /\ call.fn = "EXSInstrument"

\* a header of 84 bytes was read from a file within the size limit
HeaderRead == 84 <= call.st_size /\ call.st_size <= MAX_EXS_SIZE

\* C13: a buffer whose first 4 bytes are the big-endian form of the header
\* magic fails with UnsupportedFormatError, whatever the other header bytes.
C13_BigEndianUnsupported ==
    (Opened /\ HeaderRead /\ call.magic = <<0, 0, 1, 1>>) =>
        ret.raised = "UnsupportedFormatError"

\* the first 4 bytes are the magic in neither byte order
NeitherMagic ==
    /\ UnpackLE(call.magic) \notin {EXSHeader_sig, EXSHeader_sig_new}
    /\ UnpackBE(call.magic) \notin {EXSHeader_sig, EXSHeader_sig_new}

\* C14: neither byte order matches and the secondary marker is absent: fails
\* with InvalidFormatError; more than 1 MiB: rejected; a valid little-endian
\* magic: accepted.
C14_InvalidRejected ==
    Opened =>
        /\ (HeaderRead /\ NeitherMagic /\ call.marker = "none") =>
              ret.raised = "InvalidFormatError"
        /\ call.st_size > 1024 * 1024 => ret.raised # "none"
        /\ (HeaderRead /\ UnpackLE(call.magic)
                             \in {EXSHeader_sig, EXSHeader_sig_new}) =>
              ret.raised = "none"


----------------------------------------------------------------------------
(* EXSChunk.parse, EXSChunk.size, EXSInstrument.objects / zones / samples /
   groups *)

MaxBlocks == 3
MaxAccess == 2
CHUNK_HEADER == 84
EXSZone_sig == 16777473
EXSGroup_sig == 33554689
EXSSample_sig == 50331905
SIG_NEW == 1073741824

\* EXSChunk.parse: the class of the chunk whose signature is sig
ChunkClass(sig) ==
    IF sig = EXSHeader_sig \/ sig = EXSHeader_sig_new THEN "EXSHeader"
    ELSE IF sig = EXSZone_sig \/ sig = EXSZone_sig + SIG_NEW THEN "EXSZone"
    ELSE IF sig = EXSGroup_sig \/ sig = EXSGroup_sig + SIG_NEW THEN "EXSGroup"
    ELSE IF sig = EXSSample_sig \/ sig = EXSSample_sig + SIG_NEW THEN "EXSSample"
    ELSE "EXSUnknown"

\* the buffer: blocks of CHUNK_HEADER bytes, each with the two words a chunk
\* header has at its start, and a tail of fewer than 8 bytes
BufferEnd(data) == CHUNK_HEADER * Len(data.blocks) + data.tail

\* the words at a byte offset that is a multiple of CHUNK_HEADER
BlockAt(data, offset) == data.blocks[(offset \div CHUNK_HEADER) + 1]

\* struct.unpack_from("<I", data, offset) succeeds
SigReadable(data, offset) == offset + 4 <= BufferEnd(data)
SizeReadable(data, offset) == offset + 8 <= BufferEnd(data)

\* the signature at offset: that of a block, or the one the tail begins with
SigAt(data, offset) ==
    IF offset < CHUNK_HEADER * Len(data.blocks) THEN BlockAt(data, offset).sig
    ELSE data.tail_sig

\* a variant of EXSChunk.size that trusts the size of recognised chunks only
ChunkSizeRecognised(data, offset) ==
    IF ChunkClass(SigAt(data, offset)) = "EXSUnknown" THEN CHUNK_HEADER
    ELSE CHUNK_HEADER + BlockAt(data, offset).size

\* EXSChunk.size of the chunk at offset
ChunkSize(data, offset) == CHUNK_HEADER + BlockAt(data, offset).size

Object(data, offset) == [cls |-> ChunkClass(SigAt(data, offset)), offset |-> offset]

RECURSIVE objects(_, _)
RECURSIVE Scan(_, _, _)

\* the property zones / groups / samples (field names _zones, ...): the
\* instrument after the access
Collection(self, data, field) ==
    IF self[field] = <<>> THEN objects([self EXCEPT ![field] = <<>>], data)
    ELSE self

\* self.zones.append(new_object) and its like
AppendTo(self, data, field, object) ==
    [Collection(self, data, field) EXCEPT ![field] = Append(@, object)]

\* the classification at the end of one round of the while loop
Classify(self, data, object) ==
    IF object.cls = "EXSZone" THEN AppendTo(self, data, "_zones", object)
    ELSE IF object.cls = "EXSGroup" THEN AppendTo(self, data, "_groups", object)
    ELSE IF object.cls = "EXSSample" THEN AppendTo(self, data, "_samples", object)
    ELSE self

\* the while loop of objects from offset on; raised records that the scan
\* ended with struct.error
Scan(self, data, offset) ==
    IF offset >= BufferEnd(data) THEN self
    ELSE IF ~SigReadable(data, offset) THEN [self EXCEPT !.raised = TRUE]
    ELSE IF ~SizeReadable(data, offset)
    THEN [self EXCEPT !._objects = Append(@, Object(data, offset)), !.raised = TRUE]
    ELSE Scan(Classify([self EXCEPT !._objects = Append(@, Object(data, offset))],
                       data, Object(data, offset)),
              data, offset + ChunkSize(data, offset))

\* the property objects
objects(self, data) ==
    IF self._objects = <<>> THEN Scan([self EXCEPT !._objects = <<>>], data, 0)
    ELSE self

\* the instrument after __init__
NewInstrument == [_zones |-> <<>>, _groups |-> <<>>, _samples |-> <<>>, _objects |-> <<>>, raised |-> FALSE]

Blocks ==
    [sig : {EXSZone_sig, EXSGroup_sig + SIG_NEW, EXSSample_sig, 0}, size : {0, CHUNK_HEADER}]
    \cup [sig : {0}, size : {2 * CHUNK_HEADER}]

Buffers ==
    [blocks : UNION {[1..n -> Blocks] : n \in 1..MaxBlocks}, tail : {0}, tail_sig : {0}]
    \cup [blocks : UNION {[1..n -> Blocks] : n \in 1..MaxBlocks}, tail : {2, 4}, tail_sig : {EXSZone_sig}]

Fields == {"_zones", "_groups", "_samples"}

InitScan ==
    /\ pc = "idle"
    /\ call \in [fn : {"EXSInstrument"}, data : Buffers, self : {NewInstrument}, accesses : {0}]
    /\ ret = NoCall
    /\ fs = NoFiles
    /\ LoopIdle

\* one access of exs.zones, exs.groups or exs.samples
Access(field) ==
    /\ pc = "idle"
    /\ call.fn = "EXSInstrument"
    /\ call.accesses < MaxAccess
    /\ \E after \in {Collection(call.self, call.data, field)} :
          /\ call' = [call EXCEPT !.self = after, !.accesses = @ + 1]
          /\ ret' = IF after.raised /\ ~call.self.raised THEN [fn |-> field, raised |-> "struct.error", value |-> <<>>]
                    ELSE [fn |-> field, raised |-> "none", value |-> after[field]]
    /\ UNCHANGED <<pc, opts, zd, wav, samples, lines, conversion_stats, slot, fs>>

AccessZones == Access("_zones")
AccessGroups == Access("_groups")
AccessSamples == Access("_samples")

NextScan ==
    \/ AccessZones
    \/ AccessGroups
    \/ AccessSamples

SpecScan == InitScan /\ [][NextScan]_vars

Scanned == call.fn = "EXSInstrument" /\ call.accesses > 0

RECURSIVE ChunkOffsets(_, _)
\* the offsets of the chunks of the buffer: each begins where the one before
\* it ends, at its offset + 84 + its declared size
ChunkOffsets(data, n) ==
    IF n = 0 THEN {0}
    ELSE ChunkOffsets(data, n - 1)
         \cup {o + 84 + BlockAt(data, o).size :
                  o \in {q \in ChunkOffsets(data, n - 1) :
                            q < 84 * Len(data.blocks) /\ q + 84 + BlockAt(data, q).size < BufferEnd(data)}}

\* the chunks of a class, in encounter order
ChunksOf(data, cls) ==
    {o \in ChunkOffsets(data, Len(data.blocks)) : ChunkClass(SigAt(data, o)) = cls}

ClassOfField(field) ==
    IF field = "_zones" THEN "EXSZone" ELSE IF field = "_groups" THEN "EXSGroup" ELSE "EXSSample"

\* the list holds the offsets of S, each once, ascending
ListsExactly(list, S) ==
    /\ Len(list) = Cardinality(S)
    /\ {list[k].offset : k \in DOMAIN list} = S
    /\ \A j, k \in DOMAIN list : j < k => list[j].offset < list[k].offset

\* C22: the scan visits the chunks at offsets that advance by declared size
\* + 84, whatever their signature; once a scan has run to the end of the
\* buffer, zones, groups and samples hold exactly the recognised chunks of
\* their kind, each once, in encounter order, whichever collection was
\* accessed first and however often.
C22_ScanClassifies ==
    (Scanned /\ ~call.self.raised) =>
        /\ ret.raised = "none"
        /\ ListsExactly(call.self._objects, ChunkOffsets(call.data, Len(call.data.blocks)))
        /\ \A field \in Fields :
              \/ /\ call.self[field] = <<>>
                 /\ ChunksOf(call.data, ClassOfField(field)) = {}
              \/ ListsExactly(call.self[field], ChunksOf(call.data, ClassOfField(field)))
        /\ ListsExactly(ret.value, ChunksOf(call.data, ClassOfField(ret.fn)))

\* a second access, of another collection than the first; an unknown chunk
\* with a payload that looks like a zone is followed by a zone
C22_Witness ==
    /\ Scanned
    /\ call.accesses = 2
    /\ ret.fn = "_zones"
    /\ call.data.tail = 0
    /\ Len(call.data.blocks) = 3
    /\ call.data.blocks[1] = [sig |-> 0, size |-> CHUNK_HEADER]
    /\ call.data.blocks[2].sig = EXSZone_sig
    /\ call.data.blocks[3].sig = EXSZone_sig
    /\ Len(ret.value) = 1
    /\ ret.value[1].offset = 2 * CHUNK_HEADER

----------------------------------------------------------------------------
(* parse_sfz and parse_exs *)

MaxSections == 3
MaxZones == 3
MaxRun == 6
MISSING_LISTED == 5

\* zone a sorts before zone b: the key (pitch, minvel, rr_position)
KeyLess(a, b) ==
    \/ a.pitch < b.pitch
    \/ a.pitch = b.pitch /\ a.minvel < b.minvel
    \/ a.pitch = b.pitch /\ a.minvel = b.minvel /\ a.rr_position < b.rr_position

RECURSIVE InsertZone(_, _)
\* z put into the sorted list zs behind every zone that does not sort after it
InsertZone(zs, z) ==
    IF zs = <<>> THEN <<z>>
    ELSE IF KeyLess(z, Head(zs)) THEN <<z>> \o zs
    ELSE <<Head(zs)>> \o InsertZone(Tail(zs), z)

RECURSIVE SortZones(_)
\* zone_data.sort(key=lambda z: (z["pitch"], z["minvel"], z["rr_position"])),
\* a stable sort
SortZones(zs) ==
    IF zs = <<>> THEN <<>>
    ELSE InsertZone(SortZones(SubSeq(zs, 1, Len(zs) - 1)), zs[Len(zs)])

\* a variant that appends minvel whether or not the list has it
AppendLayerAlways(layers, minvel) == Append(layers, minvel)

\* if minvel not in vel_layers_by_pitch[pitch]: append
AppendLayer(layers, minvel) ==
    IF \E k \in DOMAIN layers : layers[k] = minvel THEN layers
    ELSE Append(layers, minvel)

RECURSIVE CollectLayers(_, _)
\* vel_layers_by_pitch[pitch] after the first loop over zone_data
CollectLayers(zs, pitch) ==
    IF zs = <<>> THEN <<>>
    ELSE IF zs[Len(zs)].pitch = pitch
    THEN AppendLayer(CollectLayers(SubSeq(zs, 1, Len(zs) - 1), pitch), zs[Len(zs)].minvel)
    ELSE CollectLayers(SubSeq(zs, 1, Len(zs) - 1), pitch)

RECURSIVE InsertInt(_, _)
InsertInt(xs, x) ==
    IF xs = <<>> THEN <<x>>
    ELSE IF x < Head(xs) THEN <<x>> \o xs
    ELSE <<Head(xs)>> \o InsertInt(Tail(xs), x)

RECURSIVE SortInts(_)
\* list.sort() on a list of ints
SortInts(xs) ==
    IF xs = <<>> THEN <<>>
    ELSE InsertInt(SortInts(SubSeq(xs, 1, Len(xs) - 1)), xs[Len(xs)])

\* list.index(x): the 0-based position of the first x
ListIndex(xs, x) == (CHOOSE k \in DOMAIN xs : xs[k] = x /\ \A j \in 1..(k - 1) : xs[j] # x) - 1

\* the sorted zone list with vel_layer assigned
AssignLayers(zs) ==
    [k \in DOMAIN zs |->
        [vel_layer |-> ListIndex(SortInts(CollectLayers(zs, zs[k].pitch)), zs[k].minvel)]
        @@ zs[k]]

\* the end of both parsers: sort, then assign the velocity layers
SortAndAssign(zone_data) == AssignLayers(SortZones(zone_data))

\* a variant that reports the first miss only
MissingMessageFirst(missing) ==
    [count |-> 1, listed |-> SubSeq(missing, 1, 1), more |-> 0]

\* the ConversionError message: the count, the names listed, "(n more)"
MissingMessage(missing) ==
    [count |-> Len(missing),
     listed |-> SubSeq(missing, 1, Min2(MISSING_LISTED, Len(missing))),
     more |-> IF Len(missing) > MISSING_LISTED THEN Len(missing) - MISSING_LISTED ELSE 0]

NoMessage == [count |-> 0, listed |-> <<>>, more |-> 0]

\* what a parser returns or raises, with its locals regions and missing
ParseResult(regions, missing, zone_data) ==
    IF missing # <<>>
    THEN [raised |-> "ConversionError", message |-> MissingMessage(missing),
          regions |-> regions, missing |-> missing, zone_data |-> <<>>]
    ELSE [raised |-> "none", message |-> NoMessage,
          regions |-> regions, missing |-> missing,
          zone_data |-> SortAndAssign(zone_data)]

\* dict.get(key, default)
Get(dict, key, default) == IF key \in DOMAIN dict THEN dict[key] ELSE default

\* dict.update(other) on a copy
Update(dict, other) == other @@ dict

NoOpcodes == [key \in {} |-> 0]

RECURSIVE ScopeAt(_, _, _)
\* the opcodes of scope `header` after the first n sections: those of the
\* last section with that header
ScopeAt(sections, n, header) ==
    IF n = 0 THEN NoOpcodes
    ELSE IF sections[n].header = header THEN sections[n].opcodes
    ELSE ScopeAt(sections, n - 1, header)

\* a variant in which the group's opcodes are applied last
MergedGroupLast(sections, n) ==
    Update(Update(Update(ScopeAt(sections, n - 1, "global"),
                         ScopeAt(sections, n - 1, "master")),
                  sections[n].opcodes),
           ScopeAt(sections, n - 1, "group"))

\* the merged opcodes of the region that is section n
Merged(sections, n) ==
    Update(Update(Update(ScopeAt(sections, n - 1, "global"),
                         ScopeAt(sections, n - 1, "master")),
                  ScopeAt(sections, n - 1, "group")),
           sections[n].opcodes)

RECURSIVE Regions(_, _)
\* regions after the first n sections
Regions(sections, n) ==
    IF n = 0 THEN <<>>
    ELSE IF sections[n].header = "region"
    THEN Append(Regions(sections, n - 1), Merged(sections, n))
    ELSE Regions(sections, n - 1)

\* os.path.join(default_path, sample_rel)
SampleRel(default_path, sample) == [dir |-> default_path, name |-> sample]

\* the sample files that exist next to the instrument
Existing == {SampleRel("", "a.wav"), SampleRel("d", "a.wav")}

\* the region's sample is looked up
HasSample(region) == Get(region, "sample", "") # ""

\* pitch: pitch_keycenter, else key, else None
RegionPitch(region) ==
    IF "pitch_keycenter" \in DOMAIN region THEN region["pitch_keycenter"]
    ELSE Get(region, "key", None)

\* the zone of a region whose sample exists and whose pitch is defined
RegionZone(region, sample_rel) ==
    [pitch |-> RegionPitch(region),
     key_center |-> RegionPitch(region) - Get(region, "transpose", 0),
     minvel |-> Get(region, "lovel", 0),
     maxvel |-> Get(region, "hivel", 127),
     sample_name |-> sample_rel.name,
     rr_position |-> IF Get(region, "seq_position", 0 - 1) > 0
                     THEN Get(region, "seq_position", 0 - 1) - 1
                     ELSE 0 - 1]

RECURSIVE SfzMissing(_, _)
\* missing after `for region in regions`
SfzMissing(regions, default_path) ==
    IF regions = <<>> THEN <<>>
    ELSE IF HasSample(regions[Len(regions)])
            /\ SampleRel(default_path, regions[Len(regions)]["sample"]) \notin Existing
    THEN Append(SfzMissing(SubSeq(regions, 1, Len(regions) - 1), default_path),
                SampleRel(default_path, regions[Len(regions)]["sample"]))
    ELSE SfzMissing(SubSeq(regions, 1, Len(regions) - 1), default_path)

RECURSIVE SfzZones(_, _)
\* zone_data after `for region in regions`
SfzZones(regions, default_path) ==
    IF regions = <<>> THEN <<>>
    ELSE IF HasSample(regions[Len(regions)])
            /\ SampleRel(default_path, regions[Len(regions)]["sample"]) \in Existing
            /\ RegionPitch(regions[Len(regions)]) # None
    THEN Append(SfzZones(SubSeq(regions, 1, Len(regions) - 1), default_path),
                RegionZone(regions[Len(regions)],
                           SampleRel(default_path, regions[Len(regions)]["sample"])))
    ELSE SfzZones(SubSeq(regions, 1, Len(regions) - 1), default_path)

\* parse_sfz after the sections have been read
CheckRegions(regions, default_path) ==
    ParseResult(regions, SfzMissing(regions, default_path),
                SfzZones(regions, default_path))

\* parse_sfz(sfz_path) on a file with the given sections
parse_sfz(sections) ==
    CheckRegions(Regions(sections, Len(sections)),
        Get(ScopeAt(sections, Len(sections), "control"), "default_path", ""))

\* sequence[i] of Python for an unsigned index i raises IndexError unless
IndexInRange(sequence, i) == i < Len(sequence)

\* sequence[i] of Python for an unsigned index i in range
PyItem(sequence, i) == sequence[i + 1]

\* EXSZone.group: a negative value read from the file is the last group
ZoneGroup(zone, groups) == IF zone.group >= 0 THEN zone.group ELSE Len(groups) - 1

\* rr_position of a zone: that of its group if the group is round-robin
ZoneRoundRobin(zone, groups) ==
    IF 0 <= ZoneGroup(zone, groups) /\ ZoneGroup(zone, groups) < Len(groups)
       /\ groups[ZoneGroup(zone, groups) + 1].is_round_robin
    THEN groups[ZoneGroup(zone, groups) + 1].round_robin_position
    ELSE 0 - 1

\* the zone_data entry of an EXS zone whose sample index is in range
ExsZone(zone, exs) ==
    [pitch |-> zone.rootnote, key_center |-> zone.rootnote,
     minvel |-> zone.minvel, maxvel |-> zone.maxvel,
     sample_name |-> PyItem(exs.samples, zone.sampleindex).name,
     rr_position |-> ZoneRoundRobin(zone, exs.groups)]

RECURSIVE ExsMissing(_)
\* missing after `for sample in exs.samples`; found is what the lookup of
\* the sample file gives
ExsMissing(exs_samples) ==
    IF exs_samples = <<>> THEN <<>>
    ELSE IF exs_samples[Len(exs_samples)].found
    THEN ExsMissing(SubSeq(exs_samples, 1, Len(exs_samples) - 1))
    ELSE Append(ExsMissing(SubSeq(exs_samples, 1, Len(exs_samples) - 1)),
                exs_samples[Len(exs_samples)].name)

\* parse_exs from `# Build zone data` on
BuildZones(exs) ==
    IF \E k \in DOMAIN exs.zones : ~IndexInRange(exs.samples, exs.zones[k].sampleindex)
    THEN [raised |-> "IndexError", message |-> NoMessage, regions |-> exs.samples,
          missing |-> <<>>, zone_data |-> <<>>]
    ELSE ParseResult(exs.samples, <<>>,
             [k \in DOMAIN exs.zones |-> ExsZone(exs.zones[k], exs)])

\* parse_exs(exs_path) on the instrument exs = EXSInstrument(exs_path)
parse_exs(exs) ==
    IF ExsMissing(exs.samples) # <<>>
    THEN ParseResult(exs.samples, ExsMissing(exs.samples), <<>>)
    ELSE BuildZones(exs)

\* the sections SFZ files are made of
Section(header, opcodes) == [header |-> header, opcodes |-> opcodes]

SfzSections ==
    {Section("control", [default_path |-> "d"]),
     Section("global", [lovel |-> 64]),
     Section("global", [sample |-> "a.wav", key |-> 61]),
     Section("master", [key |-> 61]),
     Section("group", NoOpcodes),
     Section("group", [key |-> 60, lovel |-> 0]),
     Section("group", [sample |-> "x.wav"]),
     Section("region", NoOpcodes),
     Section("region", [sample |-> "a.wav"]),
     Section("region", [sample |-> "a.wav", key |-> 60]),
     Section("region", [sample |-> "a.wav", key |-> 60, lovel |-> 64]),
     Section("region", [sample |-> "a.wav", key |-> 60, lovel |-> 100, seq_position |-> 2]),
     Section("region", [sample |-> "x.wav", key |-> 60]),
     Section("region", [sample |-> "a.wav", key |-> 60, pitch_keycenter |-> 61, lovel |-> 0]),
     Section("region", [lovel |-> 100])}

\* regions of long files: samples that exist or not
RunSections ==
    {Section("region", [sample |-> "a.wav", key |-> 60]),
     Section("region", [sample |-> "x.wav", key |-> 60]),
     Section("region", [sample |-> "y.wav", key |-> 61])}

SfzFilesParsed ==
    UNION {[1..n -> SfzSections] : n \in 0..MaxSections}
    \cup UNION {[1..n -> RunSections] : n \in (MISSING_LISTED + 1)..MaxRun}

ExsSamples == [name : {"a", "b"}, found : {TRUE}] \cup [name : {"x"}, found : {FALSE}]

RunSamples == [name : {"a"}, found : {TRUE}] \cup [name : {"x", "y"}, found : {FALSE}]

ExsGroups ==
    {<<>>, <<[is_round_robin |-> FALSE, round_robin_position |-> 0 - 1],
             [is_round_robin |-> TRUE, round_robin_position |-> 1]>>}

ExsZones ==
    {[rootnote |-> 60, minvel |-> 0, maxvel |-> 63, group |-> 0, sampleindex |-> 0],
     [rootnote |-> 60, minvel |-> 64, maxvel |-> 127, group |-> 0, sampleindex |-> 0],
     [rootnote |-> 60, minvel |-> 64, maxvel |-> 127, group |-> 1, sampleindex |-> 1],
     [rootnote |-> 60, minvel |-> 100, maxvel |-> 127, group |-> 0 - 1, sampleindex |-> 0],
     [rootnote |-> 61, minvel |-> 64, maxvel |-> 127, group |-> 2, sampleindex |-> 0],
     [rootnote |-> 61, minvel |-> 0, maxvel |-> 127, group |-> 0, sampleindex |-> 2]}

ExsInstruments ==
    [samples : UNION {[1..n -> ExsSamples] : n \in 0..2},
     zones : UNION {[1..n -> ExsZones] : n \in 0..MaxZones},
     groups : ExsGroups]
    \cup [samples : UNION {[1..n -> RunSamples] : n \in (MISSING_LISTED + 1)..MaxRun},
          zones : {<<>>}, groups : {<<>>}]

InitParse ==
    /\ pc = "call"
    /\ call \in [fn : {"parse_sfz"}, sections : SfzFilesParsed]
                \cup [fn : {"parse_exs"}, exs : ExsInstruments]
    /\ ret = NoCall
    /\ fs = NoFiles
    /\ LoopIdle

ParseSfz ==
    /\ pc = "call"
    /\ call.fn = "parse_sfz"
    /\ ret' = parse_sfz(call.sections)
    /\ pc' = "returned"
    /\ UNCHANGED <<opts, zd, wav, samples, lines, conversion_stats, slot, call, fs>>

ParseExs ==
    /\ pc = "call"
    /\ call.fn = "parse_exs"
    /\ ret' = parse_exs(call.exs)
    /\ pc' = "returned"
    /\ UNCHANGED <<opts, zd, wav, samples, lines, conversion_stats, slot, call, fs>>

NextParse ==
    \/ ParseSfz
    \/ ParseExs

SpecParse == InitParse /\ [][NextParse]_vars

Parsed == pc = "returned" /\ call.fn \in {"parse_sfz", "parse_exs"}

\* the minvel values of the zones of zs at a pitch
MinvelsAt(zs, pitch) == {zs[k].minvel : k \in {j \in DOMAIN zs : zs[j].pitch = pitch}}

\* the vel_layer values of the zones of zs at a pitch
LayersAt(zs, pitch) == {zs[k].vel_layer : k \in {j \in DOMAIN zs : zs[j].pitch = pitch}}

\* the ascending rank of minvel among the minvel values at its pitch
Rank(zs, pitch, minvel) == Cardinality({m \in MinvelsAt(zs, pitch) : m < minvel})

\* C11: in the zone list a parser returns, the vel_layer values of every
\* pitch are exactly 0..k-1, k the number of distinct minvel values at the
\* pitch, and each zone's vel_layer is the ascending rank of its minvel; so
\* it depends on pitch and minvel only, not on the order of the input.
C11_DenseLayers ==
    (Parsed /\ ret.raised = "none") =>
        \A zs \in {ret.zone_data} :
            \A k \in DOMAIN zs :
                /\ LayersAt(zs, zs[k].pitch) = 0..(Cardinality(MinvelsAt(zs, zs[k].pitch)) - 1)
                /\ zs[k].vel_layer = Rank(zs, zs[k].pitch, zs[k].minvel)

\* three velocity layers at one pitch, the highest given first
C11_Witness ==
    /\ Parsed
    /\ ret.raised = "none"
    /\ call.fn = "parse_exs"
    /\ Len(call.exs.zones) = 3
    /\ call.exs.zones[1].minvel = 100
    /\ ret.zone_data[3].minvel = 100
    /\ ret.zone_data[3].vel_layer = 2

SfzParsed == pc = "returned" /\ call.fn = "parse_sfz"

\* the last section before section n that has the header (0: none)
LastBefore(sections, n, header) ==
    IF \E m \in 1..(n - 1) : sections[m].header = header
    THEN SetMax({m \in 1..(n - 1) : sections[m].header = header})
    ELSE 0

\* the opcodes of a scope in force when section n is encountered
InForce(sections, n, header) ==
    IF LastBefore(sections, n, header) = 0 THEN NoOpcodes
    ELSE sections[LastBefore(sections, n, header)].opcodes

\* the sections that are regions, and the place of region n among them
RegionSections(sections) == {n \in DOMAIN sections : sections[n].header = "region"}
RegionNumber(sections, n) == Cardinality({m \in RegionSections(sections) : m <= n})

\* the value the innermost scope gives to the key
Effective(own, group, master, global, key) ==
    IF key \in DOMAIN own THEN own[key]
    ELSE IF key \in DOMAIN group THEN group[key]
    ELSE IF key \in DOMAIN master THEN master[key]
    ELSE global[key]

\* region holds the union of the four scopes, the later scope winning
IsUnion(region, own, group, master, global) ==
    /\ DOMAIN region = DOMAIN own \cup DOMAIN group \cup DOMAIN master \cup DOMAIN global
    /\ \A key \in DOMAIN region : region[key] = Effective(own, group, master, global, key)

\* C12: the opcodes of every region are global, master, group and its own
\* opcodes united, taken from the last <global>, <master> and <group>
\* section before the region, a later scope winning on the same key; so a
\* group's opcodes reach every region up to the next <group>, and a region's
\* own opcode overrides the inherited one for that region only.
C12_ScopesMerged ==
    SfzParsed =>
        /\ Len(ret.regions) = Cardinality(RegionSections(call.sections))
        /\ \A n \in RegionSections(call.sections) :
              IsUnion(ret.regions[RegionNumber(call.sections, n)],
                      call.sections[n].opcodes,
                      InForce(call.sections, n, "group"),
                      InForce(call.sections, n, "master"),
                      InForce(call.sections, n, "global"))

\* a group followed by a region that overrides lovel and a region that
\* inherits it
C12_Witness ==
    /\ SfzParsed
    /\ Len(call.sections) = 3
    /\ call.sections[1] = Section("group", [key |-> 60, lovel |-> 0])
    /\ call.sections[2] = Section("region", [sample |-> "a.wav", key |-> 60, lovel |-> 64])
    /\ call.sections[3] = Section("region", [sample |-> "a.wav"])
    /\ ret.regions[1]["lovel"] = 64
    /\ ret.regions[2]["lovel"] = 0
    /\ ret.regions[2]["key"] = 60

\* default_path of the file parsed
DefaultPath == Get(InForce(call.sections, Len(call.sections) + 1, "control"), "default_path", "")

\* the regions / samples (by position) whose sample file is not found
Misses ==
    IF call.fn = "parse_sfz"
    THEN {r \in DOMAIN ret.regions :
             /\ "sample" \in DOMAIN ret.regions[r]
             /\ SampleRel(DefaultPath, ret.regions[r]["sample"]) \notin Existing}
    ELSE {r \in DOMAIN call.exs.samples : ~call.exs.samples[r].found}

\* the name reported for the miss at position r
MissName(r) ==
    IF call.fn = "parse_sfz" THEN SampleRel(DefaultPath, ret.regions[r]["sample"])
    ELSE call.exs.samples[r].name

\* the position of the j-th miss
NthMiss(j) == CHOOSE r \in Misses : Cardinality({q \in Misses : q <= r}) = j

ExsParsed == pc = "returned" /\ call.fn = "parse_exs"

\* C21: parse_exs checks a zone's sample index and group index against the
\* sizes of the collections before use: a negative group index is the last
\* defined group, and an index outside a collection never ends the parser
\* with an indexing failure.
C21_IndexesChecked ==
    ExsParsed =>
        /\ ret.raised # "IndexError"
        /\ ret.raised = "none" =>
              \A z \in {k \in DOMAIN call.exs.zones : call.exs.zones[k].group < 0} :
                  \E k \in DOMAIN ret.zone_data :
                      ret.zone_data[k].rr_position =
                          (IF call.exs.groups # <<>>
                              /\ call.exs.groups[Len(call.exs.groups)].is_round_robin
                           THEN call.exs.groups[Len(call.exs.groups)].round_robin_position
                           ELSE 0 - 1)

----------------------------------------------------------------------------
(* embed_smpl_chunk *)

MaxChunks == 2
MaxCalls == 2
DEFAULT_SAMPLE_RATE == 48000
NANOSECONDS == 1000000000

\* struct.pack("<I", n) as four bytes
LE32(n) == <<n % 256, (n \div 256) % 256, (n \div 65536) % 256, (n \div 16777216) % 256>>

RECURSIVE PackWords(_)
\* struct.pack("<II...", *fields)
PackWords(fields) ==
    IF fields = <<>> THEN <<>>
    ELSE LE32(Head(fields)) \o PackWords(Tail(fields))

\* struct.pack raises struct.error for an argument that is no unsigned int
Packable(fields) == \A k \in DOMAIN fields : fields[k] >= 0

\* the k-th (0-based) little-endian 32-bit word of data
Word(data, k) == UnpackLE(SubSeq(data, 4 * k + 1, 4 * k + 4))

\* a chunk as it lies in the file: the id, the declared size, the data
\* bytes present and whether a padding byte follows
Chunk(id, data) == [id |-> id, size |-> Len(data), data |-> data, pad |-> Len(data) % 2 = 1]

\* the (chunk_id, chunk_data) pairs of `chunks`
Pair(chunk) == [id |-> chunk.id, data |-> chunk.data]

RECURSIVE ReadAllChunks(_)
\* a variant that keeps an existing smpl chunk
ReadAllChunks(chunks) ==
    IF chunks = <<>> THEN <<>>
    ELSE <<Pair(Head(chunks))>> \o ReadAllChunks(Tail(chunks))

RECURSIVE ReadChunks(_)
\* the chunks list after the read loop: every chunk but smpl, in file order
ReadChunks(chunks) ==
    IF chunks = <<>> THEN <<>>
    ELSE IF Head(chunks).id = "smpl" THEN ReadChunks(Tail(chunks))
    ELSE <<Pair(Head(chunks))>> \o ReadChunks(Tail(chunks))

RECURSIVE ReadSampleRate(_, _)
\* sample_rate after the read loop (rate: the value so far); None stands
\* for struct.error on a fmt chunk of fewer than 8 bytes
ReadSampleRate(chunks, rate) ==
    IF chunks = <<>> THEN rate
    ELSE IF Head(chunks).id # "fmt " THEN ReadSampleRate(Tail(chunks), rate)
    ELSE IF Len(Head(chunks).data) < 8 THEN None
    ELSE ReadSampleRate(Tail(chunks), Word(Head(chunks).data, 1))

\* sample_period = int(1e9 / sample_rate)
SamplePeriod(sample_rate) == PyInt(NANOSECONDS, sample_rate)

HasLoop(loop_start, loop_end) == loop_start # None /\ loop_end # None

\* the fields packed into smpl_data
SmplFields(sample_rate, loop_start, loop_end, midi_unity_note) ==
    <<0, 0, SamplePeriod(sample_rate), midi_unity_note, 0, 0, 0,
      IF HasLoop(loop_start, loop_end) THEN 1 ELSE 0, 0>>
    \o (IF HasLoop(loop_start, loop_end)
        THEN <<0, 0, loop_start, loop_end, 0, 0>>
        ELSE <<>>)

RECURSIVE WrittenLength(_)
\* tmp.tell() after the chunks have been written
WrittenLength(chunks) ==
    IF chunks = <<>> THEN 12
    ELSE 8 + Len(Head(chunks).data) + (IF Head(chunks).pad THEN 1 ELSE 0)
           + WrittenLength(Tail(chunks))

\* the chunks written to the temporary file
WrittenChunks(kept, smpl_data) ==
    [k \in DOMAIN kept |-> Chunk(kept[k].id, kept[k].data)]
    \o <<Chunk("smpl", smpl_data)>>

\* the temporary file that replaces wav_path
WrittenFile(kept, smpl_data) ==
    [riff |-> "RIFF",
     size |-> WrittenLength(WrittenChunks(kept, smpl_data)) - 8,
     wave |-> "WAVE",
     chunks |-> WrittenChunks(kept, smpl_data)]

\* embed_smpl_chunk from `# Build smpl chunk` on
BuildAndWrite(file, kept, sample_rate, loop_start, loop_end, midi_unity_note) ==
    IF sample_rate = None \/ sample_rate = 0
    THEN [returned |-> FALSE, file |-> file]
    ELSE IF ~Packable(SmplFields(sample_rate, loop_start, loop_end, midi_unity_note))
    THEN [returned |-> FALSE, file |-> file]
    ELSE [returned |-> TRUE,
          file |-> WrittenFile(kept,
                       PackWords(SmplFields(sample_rate, loop_start, loop_end,
                                            midi_unity_note)))]

\* embed_smpl_chunk(wav_path, loop_start, loop_end, midi_unity_note) on the
\* file at wav_path: the return value and the file afterwards
embed_smpl_chunk(file, loop_start, loop_end, midi_unity_note) ==
    IF file.riff # "RIFF" \/ file.wave # "WAVE"
    THEN [returned |-> FALSE, file |-> file]
    ELSE BuildAndWrite(file, ReadChunks(file.chunks),
             ReadSampleRate(file.chunks, DEFAULT_SAMPLE_RATE),
             loop_start, loop_end, midi_unity_note)

\* fmt chunk data of a PCM mono 16-bit file of the given sample rate
FmtData(sample_rate) ==
    <<1, 0, 1, 0>> \o LE32(sample_rate) \o LE32(2 * sample_rate) \o <<2, 0, 16, 0>>

\* the chunks input files are made of: fmt chunks of several rates (one too
\* short, one of rate 0), data of even and of odd length, a smpl chunk left
\* by another tool, an unknown chunk
InputChunks ==
    {Chunk("fmt ", FmtData(44100)), Chunk("fmt ", FmtData(48000)),
     Chunk("fmt ", FmtData(0)), Chunk("fmt ", <<1, 0, 1, 0, 68, 172>>),
     Chunk("data", <<7, 9>>), Chunk("data", <<7, 9, 11>>),
     Chunk("smpl", PackWords(<<0, 0, 20833, 72, 0, 0, 0, 0, 0>>)),
     Chunk("LIST", <<5>>)}

\* the last chunk of a file may lack its padding byte
LastChunks ==
    InputChunks \cup {[c EXCEPT !.pad = FALSE] : c \in InputChunks}

InputFiles ==
    [riff : {"RIFF", "RIFX"}, size : {0}, wave : {"WAVE"},
     chunks : {<<>>} \cup
              UNION {{cs \o <<last>> : cs \in [1..n -> InputChunks], last \in LastChunks}
                        : n \in 0..(MaxChunks - 1)}]

LoopStarts == {None, 0, 0 - 2}
LoopEnds == {None, 3}
UnityNotes == {60, 61}

NotCalled == [fn |-> "embed_smpl_chunk", calls |-> 0]

InitEmbed ==
    /\ pc = "idle"
    /\ fs \in InputFiles
    /\ call = NotCalled
    /\ ret = NoCall
    /\ LoopIdle

EmbedSmplChunk ==
    /\ pc = "idle"
    /\ call.fn = "embed_smpl_chunk"
    /\ call.calls < MaxCalls
    /\ \E loop_start \in LoopStarts, loop_end \in LoopEnds, midi_unity_note \in UnityNotes :
          /\ call' = [fn |-> "embed_smpl_chunk", calls |-> call.calls + 1,
                      loop_start |-> loop_start, loop_end |-> loop_end,
                      midi_unity_note |-> midi_unity_note]
          /\ \E r \in {embed_smpl_chunk(fs, loop_start, loop_end, midi_unity_note)} :
                /\ ret' = [returned |-> r.returned]
                /\ fs' = r.file
    /\ UNCHANGED <<pc, opts, zd, wav, samples, lines, conversion_stats, slot>>

NextEmbed == EmbedSmplChunk

SpecEmbed == InitEmbed /\ [][NextEmbed]_vars

\* the last call of embed_smpl_chunk returned True
Embedded == call.fn = "embed_smpl_chunk" /\ call.calls > 0 /\ ret.returned

\* the smpl chunks of a chunk sequence
SmplChunks(chunks) == {k \in DOMAIN chunks : chunks[k].id = "smpl"}

\* the file is laid out consistently and its RIFF size is its length - 8
WellSized(file) ==
    /\ file.size = WrittenLength(file.chunks) - 8
    /\ \A k \in DOMAIN file.chunks :
          /\ file.chunks[k].size = Len(file.chunks[k].data)
          /\ file.chunks[k].pad <=> (Len(file.chunks[k].data) % 2 = 1)

\* the smpl chunk carries the root note and the loop of the call c
CarriesCall(data, c) ==
    /\ Word(data, 3) = c.midi_unity_note
    /\ IF HasLoop(c.loop_start, c.loop_end)
       THEN /\ Len(data) = 60
            /\ Word(data, 7) = 1
            /\ Word(data, 10) = 0
            /\ Word(data, 11) = c.loop_start
            /\ Word(data, 12) = c.loop_end
            /\ Word(data, 14) = 0
       ELSE /\ Len(data) = 36
            /\ Word(data, 7) = 0

\* C15: a successful call of embed_smpl_chunk leaves exactly one smpl chunk,
\* with the root note and the loop of that call (one forward loop record
\* with the given start and end and play count 0, or no loop record), keeps
\* every other chunk with its content in the same order and sets the RIFF
\* size to the file length minus 8; so it is after every sequence of calls.
C15_OneSmplChunk ==
    [][Embedded' =>
          /\ Cardinality(SmplChunks(fs'.chunks)) = 1
          /\ \A k \in SmplChunks(fs'.chunks) : CarriesCall(fs'.chunks[k].data, call')
          /\ ReadChunks(fs'.chunks) = ReadChunks(fs.chunks)
          /\ WellSized(fs')]_vars

\* a second successful call, with a loop, on a file that had a foreign smpl
\* chunk, chunks of odd length and a wrong RIFF size
C15_Witness ==
    /\ Embedded
    /\ call.calls = 2
    /\ HasLoop(call.loop_start, call.loop_end)
    /\ call.midi_unity_note = 61
    /\ \E k \in DOMAIN fs.chunks : fs.chunks[k].id = "data" /\ fs.chunks[k].pad
    /\ Len(fs.chunks) = 3

\* sample_rate as embed_smpl_chunk read it from the file it has written
RateOf(file) == ReadSampleRate(file.chunks, DEFAULT_SAMPLE_RATE)

\* C16: the sample-period field written equals round(1e9 / sample_rate)
\* nanoseconds, for every sample rate found in the fmt chunk.
C16_PeriodRounded ==
    Embedded =>
        \A k \in SmplChunks(fs.chunks) :
            Word(fs.chunks[k].data, 2) = PyRound(NANOSECONDS, RateOf(fs))

----------------------------------------------------------------------------
(* Batch conversion: main and ConverterBridge.convert_files *)

MaxBatch == 3

\* an input file of a batch: an .exs file with its size and header bytes, an
\* .sfz file that refers to samples which exist or not, a file of another
\* kind
ExsFiles ==
    [ext : {".exs"}, st_size : {84, MAX_EXS_SIZE + 1},
     magic : {<<1, 1, 0, 0>>, <<0, 0, 1, 1>>}, marker : {"TBOS", "SOBT"},
     missing : {FALSE}]
SfzFiles ==
    [ext : {".sfz"}, st_size : {84}, magic : {<<0, 0, 0, 0>>},
     marker : {"none"}, missing : BOOLEAN]
OtherFiles ==
    [ext : {".wav"}, st_size : {84}, magic : {<<0, 0, 0, 0>>},
     marker : {"none"}, missing : {FALSE}]
BatchFiles == ExsFiles \cup SfzFiles \cup OtherFiles

\* what parse_exs / parse_sfz raises on the file ("none": a zone list)
ParserRaises(file) ==
    IF file.ext = ".exs"
       /\ EXSInstrument_init(file.st_size, file.magic, file.marker).raised
              # "none"
    THEN EXSInstrument_init(file.st_size, file.magic, file.marker).raised
    ELSE IF file.missing THEN "ConversionError"
    ELSE "none"

\* the zone list of a well-formed instrument of the batch: one zone
BatchZones == ZoneList({BasePitch + 1}, "asc", 1, FALSE)

\* the arguments main and _convert_single pass to convert_to_elmulti
BatchArguments(file) ==
    [fn |-> "convert_to_elmulti", ext |-> file.ext, zone_data |-> BatchZones,
     name_len |-> 1, prefix_len |-> 0, thin_factor |-> None,
     thin_anchor |-> 0, thin_max_interval |-> None]

\* convert_to_elmulti on one file of the batch
ConvertFile(file, stats) ==
    convert_to_elmulti(BatchArguments(file), ParserRaises(file),
        analyze_sample_map(BatchZones, 0), 0, stats)

\* the files convert_to_elmulti has written for input file i
FilesOf(i, written) == {[input |-> i, file |-> f] : f \in written}

InitBatch ==
    /\ pc = "loop"
    /\ call \in [fn : {"main", "convert_files"},
                 input_files : UNION {[1..n -> BatchFiles] : n \in 1..MaxBatch}]
    /\ ret = [i |-> 1, success |-> {}, errors |-> <<>>,
              cancel_requested |-> FALSE, exit |-> "running"]
    /\ fs = NoFiles
    /\ LoopIdle

\* main: one iteration of `for i, input_file in enumerate(input_files, 1)`;
\* ValidationError and ConversionError reach the handlers after the loop
\* (sys.exit(1)), any other exception leaves main uncaught
MainConvert ==
    /\ pc = "loop"
    /\ call.fn = "main"
    /\ ret.i <= Len(call.input_files)
    /\ \E r \in {ConvertFile(call.input_files[ret.i], conversion_stats)} :
          /\ fs' = fs \cup FilesOf(ret.i, r.fs)
          /\ conversion_stats' = r.stats
          /\ IF r.raised = "none"
             THEN /\ ret' = [ret EXCEPT !.i = @ + 1,
                                        !.success = @ \cup {ret.i}]
                  /\ pc' = "loop"
             ELSE /\ ret' = [ret EXCEPT
                                !.errors = Append(@, r.raised),
                                !.exit = IF r.raised \in {"ValidationError",
                                                          "ConversionError"}
                                         THEN "sys.exit(1)"
                                         ELSE "uncaught"]
                  /\ pc' = "done"
    /\ UNCHANGED <<opts, zd, wav, samples, lines, slot, call>>

\* main: the loop is over, print_summary
MainSummary ==
    /\ pc = "loop"
    /\ call.fn = "main"
    /\ ret.i > Len(call.input_files)
    /\ ret' = [ret EXCEPT !.exit = "returned"]
    /\ pc' = "done"
    /\ UNCHANGED <<opts, zd, wav, samples, lines, conversion_stats, slot,
                   call, fs>>

\* convert_files: one iteration of `for i, path in enumerate(input_paths, 1)`
\* that does not see a cancellation; every exception is logged
BridgeConvert ==
    /\ pc = "loop"
    /\ call.fn = "convert_files"
    /\ ret.i <= Len(call.input_files)
    /\ ~ret.cancel_requested
    /\ \E r \in {ConvertFile(call.input_files[ret.i], conversion_stats)} :
          /\ fs' = fs \cup FilesOf(ret.i, r.fs)
          /\ conversion_stats' = r.stats
          /\ ret' = IF r.raised = "none"
                    THEN [ret EXCEPT !.i = @ + 1, !.success = @ \cup {ret.i}]
                    ELSE [ret EXCEPT !.i = @ + 1,
                                     !.errors = Append(@, r.raised)]
    /\ pc' = "loop"
    /\ UNCHANGED <<opts, zd, wav, samples, lines, slot, call>>

\* ConverterBridge.cancel() while convert_files runs
BridgeCancel ==
    /\ pc = "loop"
    /\ call.fn = "convert_files"
    /\ ~ret.cancel_requested
    /\ ret' = [ret EXCEPT !.cancel_requested = TRUE]
    /\ UNCHANGED <<pc, opts, zd, wav, samples, lines, conversion_stats, slot,
                   call, fs>>

\* convert_files: `if self._cancel_requested: break`, or the loop is over;
\* return success, total
BridgeReturn ==
    /\ pc = "loop"
    /\ call.fn = "convert_files"
    /\ ret.i > Len(call.input_files)
          \/ (ret.i <= Len(call.input_files) /\ ret.cancel_requested)
    /\ ret' = [ret EXCEPT !.exit = "returned"]
    /\ pc' = "done"
    /\ UNCHANGED <<opts, zd, wav, samples, lines, conversion_stats, slot,
                   call, fs>>

NextBatch ==
    \/ MainConvert
    \/ MainSummary
    \/ BridgeConvert
    \/ BridgeCancel
    \/ BridgeReturn

SpecBatch == InitBatch /\ [][NextBatch]_vars

BatchDone == pc = "done" /\ call.fn \in {"main", "convert_files"}

\* input file i is a well-formed, supported instrument
WellFormed(i) ==
    /\ call.input_files[i].ext \in {".exs", ".sfz"}
    /\ ParserRaises(call.input_files[i]) = "none"

\* C18: when a batch has run (and was not cancelled), every well-formed
\* instrument of it has been converted, whatever malformed or unsupported
\* inputs stand before or after it, through main and through convert_files.
C18_OthersConverted ==
    (BatchDone /\ ~ret.cancel_requested) =>
        \A i \in DOMAIN call.input_files :
            WellFormed(i) =>
                /\ i \in ret.success
                /\ [input |-> i, file |-> MappingFile] \in fs

----------------------------------------------------------------------------
(* write_elmulti over a zone list, step by step, and run again *)

MaxWriteZones == 3   \* zones of the zone list
MaxRuns == 2         \* runs of write_elmulti into the same output directory

\* the zone dicts of the list: one loop per zone, trim and loop points fixed
WriteZones ==
    [pitch : {BasePitch + 1, BasePitch + 2}, vel_layer : {0, 1},
     rr_position : {None, 0, 1},
     loop : {TRUE}, loop_start : {1}, loop_end : {MaxPos},
     trim_start : {MaxPos}, trim_end : {0},
     original_rate : SourceRates, resample_ratio : {One}, output_rate : {0}]

\* zone_data.sort(key=(pitch, minvel, rr_position)); vel_layer is the rank of
\* minvel at the pitch
SortKeyLE(a, b) ==
    \/ a.pitch < b.pitch
    \/ a.pitch = b.pitch /\ a.vel_layer < b.vel_layer
    \/ a.pitch = b.pitch /\ a.vel_layer = b.vel_layer
          /\ a.rr_position <= b.rr_position

\* the zone lists a parser returns: sorted, velocity layers dense per pitch
WriteZoneLists ==
    {s \in UNION {[1..n -> WriteZones] : n \in 1..MaxWriteZones} :
        /\ \A a, b \in DOMAIN s : a < b => SortKeyLE(s[a], s[b])
        /\ \A a \in DOMAIN s :
              s[a].vel_layer > 0 =>
                  \E b \in DOMAIN s : /\ s[b].pitch = s[a].pitch
                                      /\ s[b].vel_layer = s[a].vel_layer - 1}

WriteOptions ==
    [target_rate : TargetRates, round_loop_points : {TRUE},
     accurate_ratio : {FALSE}, optimize_loops : {FALSE},
     loop_search_range : {SearchRange}, single_cycle_threshold : {0}]

\* frames of every source sample file
SourceFrames == MaxPos + 1

\* base_key = (pitch, vel_layer)
BaseKey(z) == <<z.pitch, z.vel_layer>>

BaseKeys == {BaseKey(z) : z \in WriteZones}

\* rr_suffix: "-rr<n>" is the number n, "" is None
RrSuffix(z, sample_counter) ==
    IF z.rr_position >= 0 THEN z.rr_position
    ELSE IF sample_counter[BaseKey(z)] > 0 THEN sample_counter[BaseKey(z)]
    ELSE None

\* new_filename = f"{safe_name}-{vel_layer:03d}-{pitch:03d}-{note_name}
\* {rr_suffix}.wav": the parts that vary within one call
NewFilename(z, sample_counter) ==
    [vel_layer |-> z.vel_layer, pitch |-> z.pitch,
     rr_suffix |-> RrSuffix(z, sample_counter)]

\* the WAV file ffmpeg writes at dest_path
WavNamed(name, original_rate, output_rate) ==
    [kind |-> "wav", name |-> name,
     nframes |-> PyInt(SourceFrames * output_rate, original_rate),
     nchannels |-> 1, ffprobe_ok |-> TRUE, wave_ok |-> FALSE]

\* os.path.exists(dest_path)
PathExists(files, name) ==
    \E f \in files : f.kind = "wav" /\ f.name = name

FileAt(files, name) ==
    CHOOSE f \in files : f.kind = "wav" /\ f.name = name

\* the local state of write_elmulti when it starts run number `run`
NewRun(zone_data, run, first_lines) ==
    [i |-> 1, j |-> 1, k |-> 1, zone_data |-> zone_data,
     sample_counter |-> [key \in BaseKeys |-> 0],
     transcoded |-> <<>>, normalized |-> <<>>, looped |-> <<>>,
     failed |-> 0, wrote |-> FALSE, run |-> run, first_lines |-> first_lines]

\* the first loop has passed zone r.i: sample_counter[base_key] += 1
NextZone(r, zone) ==
    [r EXCEPT !.zone_data[r.i] = zone,
              !.sample_counter[BaseKey(zone)] = @ + 1,
              !.i = @ + 1]

\* where write_elmulti goes on after the first loop has passed a zone
AfterZone(r, normalize) ==
    IF r.i <= Len(r.zone_data) THEN "transcode"
    ELSE IF normalize THEN "normalize" ELSE "open"

\* a variant whose first loop goes on with the next zone when ffmpeg fails
TranscodeFailedSkip(r, normalize) ==
    [pc |-> AfterZone([r EXCEPT !.i = @ + 1], normalize),
     ret |-> [r EXCEPT !.failed = r.i, !.i = @ + 1,
                       !.transcoded = Append(@, r.i)]]

\* `raise ConversionError(f"Failed to convert: ...")`
TranscodeFailed(r, normalize) ==
    [pc |-> "ConversionError",
     ret |-> [r EXCEPT !.failed = r.i, !.transcoded = Append(@, r.i)]]

InitWrite ==
    /\ pc = "makedirs"
    /\ opts \in WriteOptions
    /\ call \in [fn : {"write_elmulti"}, zone_data : WriteZoneLists,
                 normalize : BOOLEAN]
    /\ ret = NewRun(call.zone_data, 1, <<>>)
    /\ fs = NoFiles
    /\ lines = <<>>
    /\ conversion_stats = NoStats
    /\ zd = NoZone /\ wav = NoWav /\ samples = NotRead /\ slot = NoSlot

\* os.makedirs(output_dir, exist_ok=True)
MakeDirs ==
    /\ pc = "makedirs"
    /\ fs' = fs \cup {OutputDir}
    /\ pc' = "transcode"
    /\ UNCHANGED <<opts, zd, wav, samples, lines, conversion_stats, slot,
                   call, ret>>

\* first loop, dest_path does not exist, convert_to_wav returns success
TranscodeOk ==
    /\ pc = "transcode"
    /\ \E z \in {ret.zone_data[ret.i]} :
       \E name \in {NewFilename(z, ret.sample_counter)} :
       \E output_rate \in {OutputRate(z.original_rate, opts.target_rate)} :
          /\ ~PathExists(fs, name)
          /\ fs' = fs \cup {WavNamed(name, z.original_rate, output_rate)}
          /\ conversion_stats' =
               [conversion_stats EXCEPT
                  !.total_samples = @ + 1,
                  !.resampled_samples =
                      IF z.original_rate # output_rate THEN @ + 1 ELSE @]
          /\ \E r \in {NextZone([ret EXCEPT !.transcoded = Append(@, ret.i)],
                          [new_filename |-> name] @@
                          [z EXCEPT
                             !.resample_ratio =
                                 ResampleRatio(opts.accurate_ratio,
                                     z.original_rate, output_rate, None, None),
                             !.output_rate = output_rate])} :
                /\ ret' = r
                /\ pc' = AfterZone(r, call.normalize)
    /\ UNCHANGED <<opts, zd, wav, samples, lines, slot, call>>

\* first loop, dest_path does not exist, convert_to_wav returns failure
TranscodeFail ==
    /\ pc = "transcode"
    /\ ~PathExists(fs, NewFilename(ret.zone_data[ret.i], ret.sample_counter))
    /\ \E t \in {TranscodeFailed(ret, call.normalize)} :
          /\ pc' = t.pc
          /\ ret' = t.ret
    /\ UNCHANGED <<opts, zd, wav, samples, lines, conversion_stats, slot,
                   call, fs>>

\* first loop, dest_path exists: "Exists", the ratio is taken to be 1.0
TranscodeExists ==
    /\ pc = "transcode"
    /\ \E z \in {ret.zone_data[ret.i]} :
       \E name \in {NewFilename(z, ret.sample_counter)} :
          /\ PathExists(fs, name)
          /\ conversion_stats' =
               [conversion_stats EXCEPT !.total_samples = @ + 1]
          /\ \E r \in {NextZone(ret,
                          [new_filename |-> name] @@
                          [z EXCEPT
                             !.resample_ratio = One,
                             !.output_rate =
                                 IF opts.target_rate # 0
                                 THEN opts.target_rate
                                 ELSE z.original_rate])} :
                /\ ret' = r
                /\ pc' = AfterZone(r, call.normalize)
    /\ UNCHANGED <<opts, zd, wav, samples, lines, slot, call, fs>>

\* one iteration of the normalization loop: normalize_wav succeeds or not
NormalizeZone ==
    /\ pc = "normalize"
    /\ \E ok \in BOOLEAN :
          conversion_stats' =
              IF ok
              THEN [conversion_stats EXCEPT !.normalized_samples = @ + 1]
              ELSE [conversion_stats EXCEPT
                      !.warnings = Append(@, "normalization failed")]
    /\ ret' = [ret EXCEPT !.normalized = Append(@, ret.j), !.j = @ + 1]
    /\ pc' = IF ret.j < Len(ret.zone_data) THEN "normalize" ELSE "open"
    /\ UNCHANGED <<opts, zd, wav, samples, lines, slot, call, fs>>

\* `with open(elmulti_path, "w") as f:` and the header lines
OpenMapping ==
    /\ pc = "open"
    /\ fs' = fs \cup {MappingFile}
    /\ lines' = <<>>
    /\ ret' = [ret EXCEPT !.wrote = TRUE]
    /\ pc' = "slots"
    /\ UNCHANGED <<opts, zd, wav, samples, conversion_stats, slot, call>>

\* the position of zone a in the mapping file: zones_by_key in sorted_keys
\* order, the zones of a key in list order
SlotRank(zone_data, a) ==
    Cardinality({b \in DOMAIN zone_data :
        \/ zone_data[b].pitch < zone_data[a].pitch
        \/ zone_data[b].pitch = zone_data[a].pitch
              /\ zone_data[b].vel_layer < zone_data[a].vel_layer
        \/ BaseKey(zone_data[b]) = BaseKey(zone_data[a]) /\ b <= a})

SlotZone(zone_data, k) ==
    CHOOSE a \in DOMAIN zone_data : SlotRank(zone_data, a) = k

\* the trim and loop lines of the sample slot of zone z, whose file is w
SlotLines(z, o, w) ==
    TrimStartLines(z, o) @@ TrimEndLines(z, o, get_sample_count(w))
    @@ LoopLines(LoopStrategy(z, o, NotRead).loop_start,
                 LoopStrategy(z, o, NotRead).loop_end, get_sample_count(w))

\* the sample slot of the next zone; after the last one files_processed += 1
WriteSlot ==
    /\ pc = "slots"
    /\ \E a \in {SlotZone(ret.zone_data, ret.k)} :
       \E z \in {ret.zone_data[a]} :
       \E w \in {FileAt(fs, z.new_filename)} :
          /\ lines' = Append(lines, SlotLines(z, opts, w))
          /\ conversion_stats' =
               [conversion_stats EXCEPT
                  !.loops_with_loop = @ + 1,
                  !.loops_normal = @ + 1,
                  !.files_processed =
                      IF ret.k < Len(ret.zone_data) THEN @ ELSE @ + 1,
                  !.warnings =
                      Concat(@, LoopEndWarnings(
                                    LoopStrategy(z, opts, NotRead).loop_end,
                                    get_sample_count(w)))]
          /\ ret' = [ret EXCEPT !.looped = Append(@, a), !.k = @ + 1]
    /\ pc' = IF ret.k < Len(ret.zone_data) THEN "slots" ELSE "returned"
    /\ UNCHANGED <<opts, zd, wav, samples, slot, call, fs>>

\* the same instrument is converted again into the same output directory
\* by a new process
Rerun ==
    /\ pc = "returned"
    /\ ret.run < MaxRuns
    /\ ret' = NewRun(call.zone_data, ret.run + 1, lines)
    /\ conversion_stats' = NoStats
    /\ pc' = "makedirs"
    /\ UNCHANGED <<opts, zd, wav, samples, lines, slot, call, fs>>

NextWrite ==
    \/ MakeDirs
    \/ TranscodeOk
    \/ TranscodeFail
    \/ TranscodeExists
    \/ NormalizeZone
    \/ OpenMapping
    \/ WriteSlot
    \/ Rerun

SpecWrite == InitWrite /\ [][NextWrite]_vars

WriteReturned == pc = "returned" /\ call.fn = "write_elmulti"

StrictlyAscending(s) == \A a, b \in DOMAIN s : a < b => s[a] < s[b]

InSeq(s, x) == \E a \in DOMAIN s : s[a] = x

\* C25: write_elmulti takes the zones in list order; the loop points of a
\* zone are computed only when the first loop has dealt with the audio of
\* every zone (and the normalization loop too, when enabled); convert_to_wav
\* is invoked at most once per zone; when it fails, ConversionError is raised
\* at once and the call writes no mapping file.
C25_TranscodeBeforeLoops ==
    /\ [](call.fn = "write_elmulti" =>
            /\ StrictlyAscending(ret.transcoded)
            /\ StrictlyAscending(ret.normalized)
            /\ \A a \in DOMAIN ret.looped :
                  /\ ret.looped[a] = SlotZone(ret.zone_data, a)
                  /\ ret.i > ret.looped[a]
                  /\ PathExists(fs, ret.zone_data[ret.looped[a]].new_filename)
                  /\ call.normalize => InSeq(ret.normalized, ret.looped[a])
            /\ ret.failed # 0 =>
                  /\ pc = "ConversionError"
                  /\ ~ret.wrote
                  /\ ret.looped = <<>>
                  /\ ret.transcoded[Len(ret.transcoded)] = ret.failed)
    /\ [][pc = "ConversionError" => pc' = "ConversionError"]_vars

\* three zones transcoded, normalized and written with their loops
C25_Witness ==
    /\ WriteReturned
    /\ call.normalize
    /\ ret.transcoded = <<1, 2, 3>>
    /\ ret.looped = <<1, 2, 3>>
    /\ Len(lines) = 3

\* C27: a second run of write_elmulti into the output directory that holds
\* the WAV files of the first run writes the same trim and loop lines as the
\* first run did.
C27_RerunSameLines ==
    (WriteReturned /\ ret.run > 1) => lines = ret.first_lines

\* C28: within one call, two different zones never get the same output WAV
\* name.
C28_DistinctNames ==
    (call.fn = "write_elmulti") =>
        \A a, b \in 1..(ret.i - 1) :
            a # b => ret.zone_data[a].new_filename
                         # ret.zone_data[b].new_filename

----------------------------------------------------------------------------
(* conversion_stats over a batch, in both orders of the input files *)

MaxStatFiles == 2   \* input files of the batch

\* the instruments of a batch: well-formed .sfz files, each with the zone
\* list its parser returns, the interval analyze_sample_map finds for it and
\* whether write_elmulti fails to normalize one of its samples
StatInstruments ==
    [ext : {".sfz"},
     zone_data : {ZoneList(BasePitch..(BasePitch + n - 1), "asc", 1, FALSE) :
                     n \in 2..MaxPitches},
     interval : {1}, warned : BOOLEAN]

\* the thinning factors of a batch: --thin absent, or a factor >= 2
BatchThinFactors == {None} \cup {t \in ThinFactors : t >= 2}

\* the arguments of convert_to_elmulti for an instrument of the batch
StatArguments(file, thin_factor) ==
    [fn |-> "convert_to_elmulti", ext |-> file.ext,
     zone_data |-> file.zone_data, name_len |-> 1, prefix_len |-> 0,
     thin_factor |-> thin_factor, thin_anchor |-> 0,
     thin_max_interval |-> None]

\* convert_to_elmulti on the instrument: what it raises and the global
\* conversion_stats object it returns
ConvertInstrument(file, thin_factor, stats) ==
    convert_to_elmulti(StatArguments(file, thin_factor), "none",
        analyze_sample_map(file.zone_data, file.interval), 0, stats)

\* what write_elmulti adds for the instrument besides total_samples
WriteStats(file, stats) ==
    [stats EXCEPT
       !.files_processed = @ + 1,
       !.warnings =
           IF file.warned
           THEN Append(@, <<Len(file.zone_data), "normalization failed">>)
           ELSE @]

\* conversion_stats after convert_to_elmulti on the instrument
StatsAfter(file, thin_factor, stats) ==
    IF ConvertInstrument(file, thin_factor, stats).raised = "none"
    THEN WriteStats(file, ConvertInstrument(file, thin_factor, stats).stats)
    ELSE ConvertInstrument(file, thin_factor, stats).stats

\* main runs twice, each time from conversion_stats.reset(): on input_files
\* (conversion_stats) and on the same files in reverse order (ret.reversed)
InitStats ==
    /\ pc = "loop"
    /\ call \in [fn : {"main, both orders"},
                 input_files : UNION {[1..n -> StatInstruments] :
                                         n \in 1..MaxStatFiles},
                 thin_factor : BatchThinFactors]
    /\ ret = [i |-> 1, reversed |-> NoStats]
    /\ conversion_stats = NoStats
    /\ fs = NoFiles
    /\ opts = NoOptions /\ zd = NoZone /\ wav = NoWav /\ samples = NotRead
    /\ lines = <<>> /\ slot = NoSlot

\* one iteration of main's loop in each of the two runs
StatsConvert ==
    /\ pc = "loop"
    /\ call.fn = "main, both orders"
    /\ conversion_stats' =
         StatsAfter(call.input_files[ret.i], call.thin_factor,
                    conversion_stats)
    /\ ret' = [i |-> ret.i + 1,
               reversed |->
                   StatsAfter(
                       call.input_files[Len(call.input_files) + 1 - ret.i],
                       call.thin_factor, ret.reversed)]
    /\ pc' = IF ret.i < Len(call.input_files) THEN "loop" ELSE "done"
    /\ UNCHANGED <<opts, zd, wav, samples, lines, slot, call, fs>>

NextStats == StatsConvert

SpecStats == InitStats /\ [][NextStats]_vars

\* the same counts and thinning figures, the same multiset of warnings
SameStats(a, b) ==
    /\ [a EXCEPT !.warnings = <<>>] = [b EXCEPT !.warnings = <<>>]
    /\ \A w \in Range(a.warnings) \cup Range(b.warnings) :
          Count(a.warnings, w) = Count(b.warnings, w)

\* C26: after a batch, conversion_stats holds the same counts, thinning
\* figures and multiset of warnings whichever order the files were given in.
C26_OrderIndependent ==
    (pc = "done" /\ call.fn = "main, both orders") =>
        SameStats(conversion_stats, ret.reversed)

----------------------------------------------------------------------------
(* The GUI: ElmconvApp, OutputPicker, InputSelector and ConverterBridge *)

MaxConversions == 2   \* batch conversions started in one GUI session
MaxGuiFiles == 2      \* files of one selection

\* the files a selection can hold: two instruments
GuiFiles ==
    {f \in StatInstruments : ~f.warned /\ Len(f.zone_data) <= 3}

GuiSelections == UNION {[1..n -> GuiFiles] : n \in 1..MaxGuiFiles}

\* thin_factor of OptionsPanel.get_options(): disabled or 2
GuiThinFactors == {None} \cup {t \in ThinFactors : t = 2}

NoReport ==
    [message |-> "none", original |-> 0, result |-> 0,
     file |-> 0, thin_factor |-> None]

\* convert_files, "Log result with thinning info if applied": the message
\* logged for `file` after _convert_single returned or raised r
Report(r, file, thin_factor) ==
    IF r.raised # "none"
    THEN [message |-> "Error", original |-> 0, result |-> 0,
          file |-> file, thin_factor |-> thin_factor]
    ELSE IF r.stats.thin_applied
    THEN [message |-> "Done (thinned)",
          original |-> r.stats.thin_original_pitches,
          result |-> r.stats.thin_result_pitches,
          file |-> file, thin_factor |-> thin_factor]
    ELSE [message |-> "Done", original |-> 0, result |-> 0,
          file |-> file, thin_factor |-> thin_factor]

\* ElmconvApp._on_output_selected
OutputSelected(app) == [app EXCEPT !.output_path = 1, !.disabled = FALSE]

\* ElmconvApp after construction: no output folder, input buttons disabled,
\* no convert_files coroutine in flight
InitGui ==
    /\ pc = "gui"
    /\ call = [fn |-> "ElmconvApp"]
    /\ ret = [output_path |-> None, disabled |-> TRUE, tasks |-> {},
              started |-> 0, last |-> NoReport]
    /\ conversion_stats = NoStats
    /\ fs = NoFiles
    /\ opts = NoOptions /\ zd = NoZone /\ wav = NoWav /\ samples = NotRead
    /\ lines = <<>> /\ slot = NoSlot

\* OutputPicker._on_browse: the folder dialog returns a folder
GuiBrowse ==
    /\ pc = "gui"
    /\ ret' = OutputSelected(ret)
    /\ UNCHANGED <<pc, opts, zd, wav, samples, lines, conversion_stats, slot,
                   call, fs>>

\* InputSelector._on_select_files / _on_select_folder on an enabled button,
\* then ElmconvApp._on_input_selected up to its first await
GuiSelectInput ==
    /\ pc = "gui"
    /\ ~ret.disabled
    /\ ret.started < MaxConversions
    /\ \E paths \in GuiSelections, thin_factor \in GuiThinFactors :
          ret' = IF ret.output_path = None
                 THEN ret
                 ELSE [ret EXCEPT
                         !.disabled = TRUE,
                         !.started = @ + 1,
                         !.tasks = @ \cup {[id |-> ret.started + 1,
                                            input_paths |-> paths,
                                            thin_factor |-> thin_factor,
                                            i |-> 1]}]
    /\ UNCHANGED <<pc, opts, zd, wav, samples, lines, conversion_stats, slot,
                   call, fs>>

\* convert_files: one iteration of the loop of a coroutine in flight
GuiConvertFile ==
    /\ pc = "gui"
    /\ \E t \in ret.tasks :
          /\ t.i <= Len(t.input_paths)
          /\ \E r \in {ConvertInstrument(t.input_paths[t.i], t.thin_factor,
                           conversion_stats)} :
                /\ conversion_stats' = r.stats
                /\ ret' = [ret EXCEPT
                             !.tasks = (@ \ {t})
                                          \cup {[t EXCEPT !.i = @ + 1]},
                             !.last = Report(r, t.input_paths[t.i],
                                             t.thin_factor)]
    /\ UNCHANGED <<pc, opts, zd, wav, samples, lines, slot, call, fs>>

\* convert_files returns; _on_input_selected logs the result and, in its
\* finally clause, enables the input buttons
GuiFinish ==
    /\ pc = "gui"
    /\ \E t \in ret.tasks :
          /\ t.i > Len(t.input_paths)
          /\ ret' = [ret EXCEPT !.tasks = @ \ {t}, !.disabled = FALSE]
    /\ UNCHANGED <<pc, opts, zd, wav, samples, lines, conversion_stats, slot,
                   call, fs>>

NextGui ==
    \/ GuiBrowse
    \/ GuiSelectInput
    \/ GuiConvertFile
    \/ GuiFinish

SpecGui == InitGui /\ [][NextGui]_vars

\* C29: at most one batch conversion is in progress; while one is, the
\* input-selection buttons are disabled; they are enabled only when an
\* output folder is set and no conversion is in progress.
C29_OneConversion ==
    (call.fn = "ElmconvApp") =>
        /\ Cardinality(ret.tasks) <= 1
        /\ ret.tasks # {} => ret.disabled
        /\ ~ret.disabled => ret.output_path # None /\ ret.tasks = {}

\* what apply_thinning reports for the instrument under the factor
ThinnedCounts(file, thin_factor) ==
    apply_thinning(file.zone_data, thin_factor, 0, None,
        analyze_sample_map(file.zone_data, file.interval)).stats

\* C30: convert_files logs "Done (thinned: X -> Y pitches)" for an
\* instrument only when thinning was applied to it in that conversion, and
\* X and Y are the pitch counts of that instrument.
C30_ThinnedReportIsCurrent ==
    (call.fn = "ElmconvApp" /\ ret.last.message = "Done (thinned)") =>
        /\ ret.last.thin_factor # None
        /\ ret.last.original
              = ThinnedCounts(ret.last.file, ret.last.thin_factor)
                    .original_pitches
        /\ ret.last.result
              = ThinnedCounts(ret.last.file, ret.last.thin_factor)
                    .result_pitches


====
